---- MODULE Spec2Model ----
(***************************************************************************)
(* A model of axivo/mcp-slack.                                             *)
(*                                                                         *)
(* The server (src/src/server/mcp.ts, class McpServer) answers two         *)
(* requests: list-tools (McpTool.getTools, src/src/server/tool.ts) and     *)
(* call-tool (handleRequest), which looks the tool up in the registry,     *)
(* lets the handler validate its arguments and call the Slack client       *)
(* (class SlackClient, module server/client, src/unnamed/part_001), and    *)
(* wraps the handler's result with SlackClient.response.                   *)
(*                                                                         *)
(* src/README.md carries, after the documentation, the text of an earlier  *)
(* revision of the client: checkRateLimit throws there, and the text of a  *)
(* message goes through validateUrls, formatText and resolveMentions.  The *)
(* client module has none of that and is what the server calls (it is the  *)
(* one with the response method): Spec and SpecBurst follow it.  The       *)
(* earlier revision is modelled in the second half of the module, under    *)
(* the same handlers: SpecSanitizing, SpecRejectedBurst (a burst of posts  *)
(* that URL validation rejects), SpecConcurrent (calls that overlap at     *)
(* their awaits) and SpecFormat (formatText by itself).                    *)
(*                                                                         *)
(* JavaScript values are tagged records: JsString, JsObject, JsThrown (a   *)
(* rejected promise).  A text is a sequence of tokens (words, bare URLs,   *)
(* markdown links); a host and a reaction name are sequences of            *)
(* characters.                                                             *)
(***************************************************************************)
EXTENDS Integers, Sequences, FiniteSets, TLC

VARIABLES
  rateLimiter,   \* SlackClient.rateLimiter: Map key -> count; a key is <<endpoint, window>>
  now,           \* Date.now(), in ms after the instant StartWindow * RATE_LIMIT_WINDOW
  toolHandlers,  \* McpServer.toolHandlers: Map tool name -> handler
  env,           \* process.env: SLACK_TEAM_ID, SLACK_CHANNEL_IDS
  request,       \* the request being answered
  reply,         \* what the request handler returned for it
  outbound,      \* the HTTP requests the handler issued for it, in order
  gateLog,       \* what each checkRateLimit call of this request found and returned
  made,          \* history: endpoint -> the window of its latest call and the
                 \* number of calls made to it in that window
  invoked,       \* the tool handler handleRequest invoked for it, "" when none
  calls,         \* number of requests so far
  userCache,     \* SlackClient.userCache of the earlier revision: Map name -> user
  cacheExpiry,   \* SlackClient.cacheExpiry of the earlier revision, on the scale of now
  stages,        \* the steps sanitizeText took for the request, in order
  flights        \* the calls in flight when calls overlap: call -> where it waits

vars == <<rateLimiter, now, toolHandlers, env, request, reply, outbound,
          gateLog, made, invoked, calls, userCache, cacheExpiry, stages, flights>>

-----------------------------------------------------------------------------
(* Bounds of the model.                                                    *)

\* requests in one behaviour of Spec
MaxCalls == 2
\* requests in one behaviour of SpecBurst
MaxBurstCalls == 62
\* clock steps in one behaviour
MaxTicks == 2
\* one clock step, in ms
TickMs == 40000
\* floor(Date.now() / 60000) when the server starts
StartWindow == 29000000

(* Program constants.                                                      *)

RATE_LIMIT_MAX_REQUESTS == 60
RATE_LIMIT_WINDOW == 60000

-----------------------------------------------------------------------------
(* Strings as the code compares them: by UTF-16 code unit.                 *)

Utf16 ==
     "." :> 46 @@ "0" :> 48 @@ "1" :> 49 @@ "2" :> 50 @@ "3" :> 51
  @@ "4" :> 52 @@ "5" :> 53 @@ "6" :> 54 @@ "7" :> 55 @@ "8" :> 56
  @@ "9" :> 57 @@ "C" :> 67 @@ "H" :> 72 @@ "I" :> 73 @@ "M" :> 77
  @@ "P" :> 80 @@ "R" :> 82 @@ "T" :> 84 @@ "U" :> 85 @@ "_" :> 95
  @@ "a" :> 97 @@ "c" :> 99 @@ "d" :> 100 @@ "e" :> 101 @@ "f" :> 102
  @@ "g" :> 103 @@ "h" :> 104 @@ "i" :> 105 @@ "l" :> 108 @@ "n" :> 110
  @@ "o" :> 111 @@ "p" :> 112 @@ "r" :> 114 @@ "s" :> 115 @@ "t" :> 116
  @@ "y" :> 121

\* a < b for two strings, as JavaScript's < on strings
StrLess(a, b) ==
  LET n == IF Len(a) < Len(b) THEN Len(a) ELSE Len(b)
      diff == {i \in 1..n : a[i] # b[i]}
  IN IF diff = {}
     THEN Len(a) < Len(b)
     ELSE LET i == CHOOSE j \in diff : \A k \in diff : j <= k
          IN Utf16[a[i]] < Utf16[b[i]]

DigitChars == <<"0", "1", "2", "3", "4", "5", "6", "7", "8", "9">>

RECURSIVE Digits(_)
\* the decimal digits of n, as the template literal writes a number
Digits(n) ==
  IF n < 10 THEN <<DigitChars[n + 1]>>
  ELSE Digits(n \div 10) \o <<DigitChars[(n % 10) + 1]>>

\* the endpoint names the client passes to checkRateLimit
EndpointChars ==
     "addReaction" :> <<"a", "d", "d", "R", "e", "a", "c", "t", "i", "o", "n">>
  @@ "editMessage" :> <<"e", "d", "i", "t", "M", "e", "s", "s", "a", "g", "e">>
  @@ "getChannelHistory" :> <<"g", "e", "t", "C", "h", "a", "n", "n", "e", "l", "H", "i", "s", "t", "o", "r", "y">>
  @@ "getChannelInfo" :> <<"g", "e", "t", "C", "h", "a", "n", "n", "e", "l", "I", "n", "f", "o">>
  @@ "getChannels" :> <<"g", "e", "t", "C", "h", "a", "n", "n", "e", "l", "s">>
  @@ "getThreadReplies" :> <<"g", "e", "t", "T", "h", "r", "e", "a", "d", "R", "e", "p", "l", "i", "e", "s">>
  @@ "getUserInfo" :> <<"g", "e", "t", "U", "s", "e", "r", "I", "n", "f", "o">>
  @@ "getUserProfile" :> <<"g", "e", "t", "U", "s", "e", "r", "P", "r", "o", "f", "i", "l", "e">>
  @@ "getUsers" :> <<"g", "e", "t", "U", "s", "e", "r", "s">>
  @@ "postMessage" :> <<"p", "o", "s", "t", "M", "e", "s", "s", "a", "g", "e">>
  @@ "postReply" :> <<"p", "o", "s", "t", "R", "e", "p", "l", "y">>

Endpoints == DOMAIN EndpointChars

-----------------------------------------------------------------------------
(* JavaScript values.                                                      *)

JsString(s) == [type |-> "string", str |-> s]
JsObject(o) == [type |-> "object", obj |-> o]
JsBoolean(b) == [type |-> "boolean", flag |-> b]
JsNull == [type |-> "null"]
\* a thrown error, or the rejection of the promise an async method returns
JsThrown(message) == [type |-> "thrown", error |-> message]

\* JSON.stringify
JSONstringify(v) ==
  IF v.type = "string" THEN "\"" \o v.str \o "\""
  ELSE IF v.type = "boolean" THEN ToString(v.flag)
  ELSE IF v.type = "null" THEN "null"
  ELSE ToString(v.obj)

\* SlackClient.response: the content envelope
Response(response, stringify) ==
  [content |-> <<[type |-> "text",
                  text |-> IF stringify THEN JsString(JSONstringify(response))
                           ELSE response]>>]

-----------------------------------------------------------------------------
(* The rate limiter.                                                       *)

\* Math.floor(now / RATE_LIMIT_WINDOW)
WindowOf(t) == StartWindow + (t \div RATE_LIMIT_WINDOW)

\* `${endpoint}_${window}`
KeyString(key) == EndpointChars[key[1]] \o <<"_">> \o Digits(key[2])

\* k < key, on the key strings
KeyLess(k, key) == StrLess(KeyString(k), KeyString(key))

\* this.rateLimiter.get(key) || 0
MapGet(map, key) == IF key \in DOMAIN map THEN map[key] ELSE 0

RateLimitMessage(endpoint) == "Rate limit exceeded for '" \o endpoint \o "' endpoint."

\* checkRateLimit counting the call before it looks at the cap
CheckRateLimitCountingFirst(map, t, endpoint) ==
  LET key == <<endpoint, WindowOf(t)>>
      current == MapGet(map, key)
      set == [k \in DOMAIN map \cup {key} |-> IF k = key THEN current + 1 ELSE map[k]]
      kept == {k \in DOMAIN set : ~KeyLess(k, key)}
  IN IF current >= RATE_LIMIT_MAX_REQUESTS
     THEN [rateLimiter |-> [k \in kept |-> set[k]], key |-> key, current |-> current,
           returned |-> JsObject(Response(JsString(RateLimitMessage(endpoint)), FALSE))]
     ELSE [rateLimiter |-> [k \in kept |-> set[k]], key |-> key,
           current |-> current, returned |-> JsBoolean(TRUE)]
\* SlackClient.checkRateLimit at time t: the map afterwards, the count found
\* and the value returned.  At the cap it returns a content envelope built by
\* this.response; it does not throw.
CheckRateLimit(map, t, endpoint) ==
  LET key == <<endpoint, WindowOf(t)>>
      current == MapGet(map, key)
  IN IF current >= RATE_LIMIT_MAX_REQUESTS
     THEN [rateLimiter |-> map, key |-> key, current |-> current,
           returned |-> JsObject(Response(JsString(RateLimitMessage(endpoint)), FALSE))]
     ELSE LET set == [k \in DOMAIN map \cup {key} |->
                        IF k = key THEN current + 1 ELSE map[k]]
              kept == {k \in DOMAIN set : ~KeyLess(k, key)}
          IN [rateLimiter |-> [k \in kept |-> set[k]], key |-> key,
              current |-> current, returned |-> JsBoolean(TRUE)]

-----------------------------------------------------------------------------
(* Texts, and the Slack Web API as the client sees it.                     *)

Word(w) == [kind |-> "word", word |-> w]
\* an absolute or relative URL reference; port -1 when the text has none
Url(scheme, host, port, path) ==
  [scheme |-> scheme, host |-> host, port |-> port, path |-> path]
BareUrl(u) == [kind |-> "url", url |-> u]
\* [label](target)
MdLink(label, target) == [kind |-> "mdlink", label |-> label, target |-> target]
\* <target|label>
SlackLink(label, target) == [kind |-> "slacklink", label |-> label, target |-> target]

\* slackify-markdown, the package the handlers convert a text with: a
\* markdown link becomes a Slack link, words and bare URLs stay
SlackifyMarkdown(text) ==
  [i \in 1..Len(text) |->
     IF text[i].kind = "mdlink" THEN SlackLink(text[i].label, text[i].target)
     ELSE text[i]]

\* what fetch and response.json() can give for one request
FetchOutcomes == {"ok", "not_ok", "network_error"}
\* and for a conversations.info lookup, whose channel may be archived
InfoOutcomes == FetchOutcomes \cup {"archived"}

\* the members users.list returns on its first page, the cursor that page
\* gives for the next one, and the members of the next and last page
SlackUsers ==
  << [id |-> "U1", name |-> "jane.d", real_name |-> "Jane Doe", deleted |-> FALSE],
     [id |-> "U2", name |-> "old.bob", real_name |-> "Bob Old", deleted |-> TRUE] >>
UsersNextCursor == "dXNlcjpVMQ=="
SlackUsersNextPage ==
  << [id |-> "U3", name |-> "raj.p", real_name |-> "Raj Patel", deleted |-> FALSE] >>

\* the body of an ok answer of the Web API method api to request req
OkBody(req) ==
  CASE req.api = "reactions.add" -> [ok |-> TRUE]
    [] req.api = "chat.update" ->
         [ok |-> TRUE, channel |-> req.body.channel, ts |-> req.body.ts]
    [] req.api = "chat.postMessage" ->
         [ok |-> TRUE, channel |-> req.body.channel, ts |-> "1700000000.000100"]
    [] req.api = "conversations.history" -> [ok |-> TRUE, messages |-> <<>>]
    [] req.api = "conversations.replies" -> [ok |-> TRUE, messages |-> <<>>]
    [] req.api = "conversations.info" ->
         [ok |-> TRUE, channel |-> [id |-> req.params.channel, is_archived |-> FALSE]]
    [] req.api = "conversations.list" ->
         [ok |-> TRUE, channels |-> <<[id |-> "C01234567", is_archived |-> FALSE]>>,
          response_metadata |-> [next_cursor |-> ""]]
    [] req.api = "users.info" -> [ok |-> TRUE, user |-> SlackUsers[1]]
    [] req.api = "users.profile.get" -> [ok |-> TRUE, profile |-> [display_name |-> "Jane"]]
    [] req.api = "users.list" ->
         IF "cursor" \in DOMAIN req.params /\ req.params.cursor = UsersNextCursor
         THEN [ok |-> TRUE, members |-> SlackUsersNextPage,
               response_metadata |-> [next_cursor |-> ""]]
         ELSE [ok |-> TRUE, members |-> SlackUsers,
               response_metadata |-> [next_cursor |-> UsersNextCursor]]

\* await fetch(...) followed by response.json(), with outcome o
FetchJson(req, o) ==
  IF o = "network_error" THEN JsThrown("fetch failed")
  ELSE IF o = "not_ok" THEN JsObject([ok |-> FALSE, error |-> "slack_error"])
  ELSE IF o = "archived"
  THEN JsObject([ok |-> TRUE, channel |-> [id |-> req.params.channel, is_archived |-> TRUE]])
  ELSE JsObject(OkBody(req))

\* an optional argument: <<>> when undefined, <<v>> otherwise
Opt(args, f) == IF f \in DOMAIN args THEN <<args[f]>> ELSE <<>>
\* a parameter with a default value
OrDefault(opt, d) == IF opt = <<>> THEN d ELSE opt[1]
Min(a, b) == IF a < b THEN a ELSE b

\* the character class [a-zA-Z0-9_]
WordChars ==
  {"a", "b", "c", "d", "e", "f", "g", "h", "i", "j", "k", "l", "m",
  "n", "o", "p", "q", "r", "s", "t", "u", "v", "w", "x", "y", "z",
  "A", "B", "C", "D", "E", "F", "G", "H", "I", "J", "K", "L", "M",
  "N", "O", "P", "Q", "R", "S", "T", "U", "V", "W", "X", "Y", "Z",
  "0", "1", "2", "3", "4", "5", "6", "7", "8", "9", "_"}
\* the class with the hyphen added
IsWordCharOrHyphen(c) == c \in WordChars \cup {"-"}
IsWordChar(c) == c \in WordChars

-----------------------------------------------------------------------------
(* The Slack client (SlackClient).  An operation takes the rate-limit map, *)
(* the time, its arguments and the outcomes o of the fetches it may make,  *)
(* and gives the map afterwards, the checkRateLimit calls it made (gate),  *)
(* the requests it sent (outbound) and its result.  Every operation drops  *)
(* the value checkRateLimit returns.                                       *)

\* one checkRateLimit call: what it found and returned, and the number
\* of requests the operation sent after it
Gate(g, reqs) ==
  [endpoint |-> g.key[1], window |-> g.key[2], current |-> g.current,
   returned |-> g.returned, sent |-> Len(reqs)]

Done(g, reqs, result) ==
  [rateLimiter |-> g.rateLimiter, gate |-> <<Gate(g, reqs)>>,
   outbound |-> reqs, result |-> result]

\* SlackClient.addReaction
AddReaction(map, t, channel_id, timestamp, reaction, o) ==
  LET g == CheckRateLimit(map, t, "addReaction")
      sanitizedReaction == SelectSeq(reaction, IsWordChar)
      req == [api |-> "reactions.add", method |-> "POST",
              body |-> [channel |-> channel_id, name |-> sanitizedReaction,
                        timestamp |-> timestamp]]
  IN Done(g, <<req>>, FetchJson(req, o[1]))

\* SlackClient.editMessage
EditMessage(map, t, channel_id, timestamp, text, o) ==
  LET g == CheckRateLimit(map, t, "editMessage")
      req == [api |-> "chat.update", method |-> "POST",
              body |-> [channel |-> channel_id, link_names |-> TRUE, parse |-> "full",
                        text |-> text, ts |-> timestamp,
                        unfurl_links |-> FALSE, unfurl_media |-> FALSE]]
  IN Done(g, <<req>>, FetchJson(req, o[1]))

\* SlackClient.getChannelHistory
GetChannelHistory(map, t, channel_id, limit, o) ==
  LET g == CheckRateLimit(map, t, "getChannelHistory")
      req == [api |-> "conversations.history", method |-> "GET",
              params |-> [channel |-> channel_id,
                          limit |-> ToString(Min(OrDefault(limit, 10), 1000))]]
  IN Done(g, <<req>>, FetchJson(req, o[1]))

\* SlackClient.getChannelInfo
GetChannelInfo(map, t, channel_id, o) ==
  LET g == CheckRateLimit(map, t, "getChannelInfo")
      req == [api |-> "conversations.info", method |-> "GET",
              params |-> [channel |-> channel_id]]
      result == FetchJson(req, o[1])
  IN Done(g, <<req>>,
          IF result.type = "thrown" THEN result
          ELSE IF result.obj.ok THEN JsObject(result.obj.channel)
          ELSE JsNull)

\* String.prototype.trim on the segments of SLACK_CHANNEL_IDS
Trim(id) == IF id = " C76543210" THEN "C76543210" ELSE id

\* the loop of getChannels leaving after its first lookup
InfoLookupsOnce(ids, o, i) ==
  LET req == [api |-> "conversations.info", method |-> "GET",
              params |-> [channel |-> Trim(ids[i])]]
      data == FetchJson(req, o[i])
  IN IF data.type = "thrown"
     THEN [outbound |-> <<req>>, channels |-> <<>>, thrown |-> TRUE]
     ELSE [outbound |-> <<req>>,
           channels |-> IF data.obj.ok /\ "channel" \in DOMAIN data.obj
                              /\ ~data.obj.channel.is_archived
                        THEN <<data.obj.channel>> ELSE <<>>,
           thrown |-> FALSE]
RECURSIVE InfoLookups(_, _, _)
\* the loop of getChannels over predefinedChannelIdsArray from index i: the
\* lookups sent, the channels kept, and whether a fetch threw
InfoLookups(ids, o, i) ==
  IF i > Len(ids) THEN [outbound |-> <<>>, channels |-> <<>>, thrown |-> FALSE]
  ELSE LET req == [api |-> "conversations.info", method |-> "GET",
                   params |-> [channel |-> Trim(ids[i])]]
           data == FetchJson(req, o[i])
       IN IF data.type = "thrown"
          THEN [outbound |-> <<req>>, channels |-> <<>>, thrown |-> TRUE]
          ELSE LET rest == InfoLookups(ids, o, i + 1)
                   keep == /\ data.obj.ok
                           /\ "channel" \in DOMAIN data.obj
                           /\ ~data.obj.channel.is_archived
               IN [outbound |-> <<req>> \o rest.outbound,
                   channels |-> IF keep THEN <<data.obj.channel>> \o rest.channels
                                ELSE rest.channels,
                   thrown |-> rest.thrown]

\* getChannels passing the limit on as it is
GetChannelsUnclamped(map, t, ids, teamId, limit, cursor, o) ==
  LET g == CheckRateLimit(map, t, "getChannels")
  IN IF ids = <<>>
     THEN LET base == [types |-> "public_channel", exclude_archived |-> "true",
                       limit |-> ToString(OrDefault(limit, 100)),
                       team_id |-> teamId]
              req == [api |-> "conversations.list", method |-> "GET",
                      params |-> IF cursor # <<>> /\ cursor # <<"">>
                                 THEN base @@ [cursor |-> cursor[1]] ELSE base]
          IN Done(g, <<req>>, FetchJson(req, o[1]))
     ELSE LET loop == InfoLookups(ids, o, 1)
          IN Done(g, loop.outbound,
                  IF loop.thrown THEN JsThrown("fetch failed")
                  ELSE JsObject([ok |-> TRUE, channels |-> loop.channels,
                                 response_metadata |-> [next_cursor |-> ""]]))

\* SlackClient.getChannels; ids is process.env.SLACK_CHANNEL_IDS split at the commas
GetChannels(map, t, ids, teamId, limit, cursor, o) ==
  LET g == CheckRateLimit(map, t, "getChannels")
  IN IF ids = <<>>
     THEN LET base == [types |-> "public_channel", exclude_archived |-> "true",
                       limit |-> ToString(Min(OrDefault(limit, 100), 200)),
                       team_id |-> teamId]
              req == [api |-> "conversations.list", method |-> "GET",
                      params |-> IF cursor # <<>> /\ cursor # <<"">>
                                 THEN base @@ [cursor |-> cursor[1]] ELSE base]
          IN Done(g, <<req>>, FetchJson(req, o[1]))
     ELSE LET loop == InfoLookups(ids, o, 1)
          IN Done(g, loop.outbound,
                  IF loop.thrown THEN JsThrown("fetch failed")
                  ELSE JsObject([ok |-> TRUE, channels |-> loop.channels,
                                 response_metadata |-> [next_cursor |-> ""]]))

\* SlackClient.getThreadReplies
GetThreadReplies(map, t, channel_id, thread_ts, o) ==
  LET g == CheckRateLimit(map, t, "getThreadReplies")
      req == [api |-> "conversations.replies", method |-> "GET",
              params |-> [channel |-> channel_id, ts |-> thread_ts]]
  IN Done(g, <<req>>, FetchJson(req, o[1]))

\* SlackClient.getUserInfo
GetUserInfo(map, t, user_id, o) ==
  LET g == CheckRateLimit(map, t, "getUserInfo")
      req == [api |-> "users.info", method |-> "GET", params |-> [user |-> user_id]]
      result == FetchJson(req, o[1])
  IN Done(g, <<req>>,
          IF result.type = "thrown" THEN result
          ELSE IF result.obj.ok THEN JsObject(result.obj.user)
          ELSE JsNull)

\* SlackClient.getUserProfile
GetUserProfile(map, t, user_id, o) ==
  LET g == CheckRateLimit(map, t, "getUserProfile")
      req == [api |-> "users.profile.get", method |-> "GET",
              params |-> [user |-> user_id, include_labels |-> "true"]]
  IN Done(g, <<req>>, FetchJson(req, o[1]))

\* SlackClient.getUsers
GetUsers(map, t, teamId, limit, cursor, o) ==
  LET g == CheckRateLimit(map, t, "getUsers")
      base == [limit |-> ToString(Min(OrDefault(limit, 100), 200)), team_id |-> teamId]
      req == [api |-> "users.list", method |-> "GET",
              params |-> IF cursor # <<>> /\ cursor # <<"">>
                         THEN base @@ [cursor |-> cursor[1]] ELSE base]
  IN Done(g, <<req>>, FetchJson(req, o[1]))

\* SlackClient.postMessage
PostMessage(map, t, channel_id, text, o) ==
  LET g == CheckRateLimit(map, t, "postMessage")
      req == [api |-> "chat.postMessage", method |-> "POST",
              body |-> [channel |-> channel_id, link_names |-> TRUE, parse |-> "full",
                        text |-> text, unfurl_links |-> FALSE, unfurl_media |-> FALSE]]
  IN Done(g, <<req>>, FetchJson(req, o[1]))

\* SlackClient.postReply
PostReply(map, t, channel_id, thread_ts, text, broadcast, o) ==
  LET g == CheckRateLimit(map, t, "postReply")
      body == [channel |-> channel_id, link_names |-> TRUE, parse |-> "full",
               text |-> text, thread_ts |-> thread_ts,
               unfurl_links |-> FALSE, unfurl_media |-> FALSE]
      req == [api |-> "chat.postMessage", method |-> "POST",
              body |-> IF OrDefault(broadcast, FALSE)
                       THEN body @@ [reply_broadcast |-> TRUE] ELSE body]
  IN Done(g, <<req>>, FetchJson(req, o[1]))

-----------------------------------------------------------------------------
(* The tool catalog (McpTool) and the server (McpServer).                  *)

Tool(name, properties, required) ==
  [name |-> name, properties |-> properties, required |-> required]

\* McpTool.getTools: name, properties and required fields of each definition
GetTools ==
  << Tool("add_reaction", {"channel_id", "timestamp", "reaction"},
          <<"channel_id", "timestamp", "reaction">>),
     Tool("edit_message", {"channel_id", "timestamp", "text"},
          <<"channel_id", "timestamp", "text">>),
     Tool("get_channel_history", {"channel_id", "limit"}, <<"channel_id">>),
     Tool("get_thread_replies", {"channel_id", "thread_ts"}, <<"channel_id", "thread_ts">>),
     Tool("get_user_profile", {"user_id"}, <<"user_id">>),
     Tool("get_users", {"cursor", "limit"}, <<>>),
     Tool("list_channels", {"limit", "cursor"}, <<>>),
     Tool("post_message", {"channel_id", "text"}, <<"channel_id", "text">>),
     Tool("reply_to_thread", {"channel_id", "thread_ts", "text", "broadcast"},
          <<"channel_id", "thread_ts", "text">>) >>

\* a registry that misses the last entry
SetupToolHandlersWithoutReply ==
     "add_reaction" :> "handleAddReaction"
  @@ "edit_message" :> "handleEditMessage"
  @@ "get_channel_history" :> "handleGetChannelHistory"
  @@ "get_thread_replies" :> "handleGetThreadReplies"
  @@ "get_user_profile" :> "handleGetUserProfile"
  @@ "get_users" :> "handleGetUsers"
  @@ "list_channels" :> "handleListChannels"
  @@ "post_message" :> "handlePostMessage"

\* McpServer.setupToolHandlers: the registry after construction
SetupToolHandlers ==
     "add_reaction" :> "handleAddReaction"
  @@ "edit_message" :> "handleEditMessage"
  @@ "get_channel_history" :> "handleGetChannelHistory"
  @@ "get_thread_replies" :> "handleGetThreadReplies"
  @@ "get_user_profile" :> "handleGetUserProfile"
  @@ "get_users" :> "handleGetUsers"
  @@ "list_channels" :> "handleListChannels"
  @@ "post_message" :> "handlePostMessage"
  @@ "reply_to_thread" :> "handleReplyToThread"

\* the fields whose values are sequences (a text, a reaction name); the
\* values of the other fields the handlers test are strings
SeqFields == {"text", "reaction"}

\* args.f === undefined
NotGiven(args, f) == f \notin DOMAIN args

\* !args.f
Not(args, f) ==
  \/ f \notin DOMAIN args
  \/ IF f \in SeqFields THEN args[f] = <<>> ELSE args[f] = ""

\* a handler that returns before it calls the client
Returned(map, result) ==
  [rateLimiter |-> map, gate |-> <<>>, outbound |-> <<>>, result |-> result]

\* McpServer.handleAddReaction
HandleAddReaction(map, t, e, args, o) ==
  IF Not(args, "channel_id") \/ Not(args, "timestamp") \/ Not(args, "reaction")
  THEN Returned(map, JsString("Missing required arguments: channel_id, timestamp, and reaction"))
  ELSE AddReaction(map, t, args.channel_id, args.timestamp, args.reaction, o)

\* McpServer.handleEditMessage
HandleEditMessage(map, t, e, args, o) ==
  IF Not(args, "channel_id") \/ Not(args, "timestamp") \/ Not(args, "text")
  THEN Returned(map, JsString("Missing required arguments: channel_id, timestamp, and text"))
  ELSE EditMessage(map, t, args.channel_id, args.timestamp, SlackifyMarkdown(args.text), o)

\* McpServer.handleGetChannelHistory
HandleGetChannelHistory(map, t, e, args, o) ==
  IF Not(args, "channel_id")
  THEN Returned(map, JsString("Missing required argument: channel_id"))
  ELSE GetChannelHistory(map, t, args.channel_id, Opt(args, "limit"), o)

\* McpServer.handleGetThreadReplies
HandleGetThreadReplies(map, t, e, args, o) ==
  IF Not(args, "channel_id") \/ Not(args, "thread_ts")
  THEN Returned(map, JsString("Missing required arguments: channel_id and thread_ts"))
  ELSE GetThreadReplies(map, t, args.channel_id, args.thread_ts, o)

\* McpServer.handleGetUserProfile
HandleGetUserProfile(map, t, e, args, o) ==
  IF Not(args, "user_id")
  THEN Returned(map, JsString("Missing required argument: user_id"))
  ELSE GetUserProfile(map, t, args.user_id, o)

\* the members of a users.list answer, each with its mention
WithMentions(members) ==
  [i \in DOMAIN members |-> members[i] @@ [mention |-> "@" \o members[i].name]]

\* the second half of handleGetUsers, on what getUsers gave
MapMembers(r) ==
  IF r.result.type = "object" /\ "members" \in DOMAIN r.result.obj
  THEN [r EXCEPT !.result.obj.members = WithMentions(@)]
  ELSE r

\* McpServer.handleGetUsers
HandleGetUsers(map, t, e, args, o) ==
  MapMembers(GetUsers(map, t, e.SLACK_TEAM_ID, Opt(args, "limit"), Opt(args, "cursor"), o))

\* McpServer.handleListChannels
HandleListChannels(map, t, e, args, o) ==
  GetChannels(map, t, e.SLACK_CHANNEL_IDS, e.SLACK_TEAM_ID,
              Opt(args, "limit"), Opt(args, "cursor"), o)

\* handlePostMessage with a message for the text alone
HandlePostMessageNamingText(map, t, e, args, o) ==
  IF Not(args, "channel_id") \/ Not(args, "text")
  THEN Returned(map, JsString("Missing required argument: text"))
  ELSE PostMessage(map, t, args.channel_id, SlackifyMarkdown(args.text), o)

\* McpServer.handlePostMessage
HandlePostMessage(map, t, e, args, o) ==
  IF Not(args, "channel_id") \/ Not(args, "text")
  THEN Returned(map, JsString("Missing required arguments: channel_id and text"))
  ELSE PostMessage(map, t, args.channel_id, SlackifyMarkdown(args.text), o)

\* McpServer.handleReplyToThread
HandleReplyToThread(map, t, e, args, o) ==
  IF Not(args, "channel_id") \/ Not(args, "thread_ts") \/ Not(args, "text")
  THEN Returned(map, JsString("Missing required arguments: channel_id, thread_ts, and text"))
  ELSE PostReply(map, t, args.channel_id, args.thread_ts, SlackifyMarkdown(args.text),
                 Opt(args, "broadcast"), o)

\* handler(request.params.arguments), for the bound method a registry entry holds
Handler(h, map, t, e, args, o) ==
  CASE h = "handleAddReaction" -> HandleAddReaction(map, t, e, args, o)
    [] h = "handleEditMessage" -> HandleEditMessage(map, t, e, args, o)
    [] h = "handleGetChannelHistory" -> HandleGetChannelHistory(map, t, e, args, o)
    [] h = "handleGetThreadReplies" -> HandleGetThreadReplies(map, t, e, args, o)
    [] h = "handleGetUserProfile" -> HandleGetUserProfile(map, t, e, args, o)
    [] h = "handleGetUsers" -> HandleGetUsers(map, t, e, args, o)
    [] h = "handleListChannels" -> HandleListChannels(map, t, e, args, o)
    [] h = "handlePostMessage" -> HandlePostMessage(map, t, e, args, o)
    [] h = "handleReplyToThread" -> HandleReplyToThread(map, t, e, args, o)

\* return this.client.response(result, typeof result === 'string' ? false : true),
\* on what handler h gave; a rejection of the handler's promise passes through
Respond(h, r) ==
  [rateLimiter |-> r.rateLimiter, gate |-> r.gate, outbound |-> r.outbound,
   invoked |-> h,
   result |-> IF r.result.type = "thrown" THEN r.result
              ELSE JsObject(Response(r.result, r.result.type # "string"))]

\* handleRequest looking the handler up before it looks at the arguments
HandleRequestLookupFirst(map, t, e, handlers, req, o) ==
  IF req.name \notin DOMAIN handlers
  THEN Returned(map, JsString("Unknown tool: " \o req.name)) @@ [invoked |-> ""]
  ELSE IF ~req.hasArguments
  THEN Returned(map, JsString("No arguments provided")) @@ [invoked |-> ""]
  ELSE Respond(handlers[req.name],
               Handler(handlers[req.name], map, t, e, req.arguments, o))

\* McpServer.handleRequest: what the call-tool request handler returns, with
\* the handler it invoked ("" when none).  A rejection of the handler's
\* promise is not caught here.
HandleRequest(map, t, e, handlers, req, o) ==
  IF ~req.hasArguments
  THEN Returned(map, JsString("No arguments provided")) @@ [invoked |-> ""]
  ELSE IF req.name \notin DOMAIN handlers
  THEN Returned(map, JsString("Unknown tool: " \o req.name)) @@ [invoked |-> ""]
  ELSE Respond(handlers[req.name],
               Handler(handlers[req.name], map, t, e, req.arguments, o))

\* McpServer.handleTools
HandleTools == JsObject([tools |-> GetTools])

-----------------------------------------------------------------------------
(* The callers: the requests drawn, the clock, the environment.            *)

BitLy == <<"b", "i", "t", ".", "l", "y">>
ExampleCom == <<"e", "x", "a", "m", "p", "l", "e", ".", "c", "o", "m">>

\* the texts, reaction names and argument values the callers send
Texts ==
  { <<>>,
    <<Word("hello")>>,
    <<Word("see"), BareUrl(Url("http", BitLy, -1, "/x")), Word("today")>>,
    <<MdLink("docs", Url("http", ExampleCom, 9999, ""))>>,
    <<BareUrl(Url("https", ExampleCom, 443, "/path"))>> }

Reactions ==
  { <<>>, <<"t", "h", "u", "m", "b", "s", "-", "u", "p", "!", "!">>,
    <<"+", "O", "K", "_", "1">> }

FieldValues ==
     "channel_id" :> {"", "C1"}
  @@ "timestamp" :> {"", "111.222"}
  @@ "thread_ts" :> {"", "111.000"}
  @@ "user_id" :> {"", "U1"}
  @@ "text" :> Texts
  @@ "reaction" :> Reactions
  @@ "limit" :> {5, 500, 5000}
  @@ "cursor" :> {"", "dXNlcjpVMQ=="}
  @@ "broadcast" :> {TRUE}

RECURSIVE MapsOver(_)
\* every argument map with fields among fields: each field absent or given one of its values
MapsOver(fields) ==
  IF fields = {} THEN {<<>>}
  ELSE LET f == CHOOSE x \in fields : TRUE
           rest == MapsOver(fields \ {f})
       IN rest \cup {g @@ (f :> v) : g \in rest, v \in FieldValues[f]}

ToolNames == {GetTools[i].name : i \in DOMAIN GetTools}
ToolNamed(name) == GetTools[CHOOSE i \in DOMAIN GetTools : GetTools[i].name = name]
ArgMaps(name) == MapsOver(ToolNamed(name).properties)

\* names no handler is registered for
UnknownNames == {"delete_message", "slack_post_message"}

\* process.env; SLACK_CHANNEL_IDS is given as its comma-separated segments
Envs ==
  { [SLACK_TEAM_ID |-> "T01234567", SLACK_CHANNEL_IDS |-> ids] :
      ids \in { <<>>, <<"C01234567", " C76543210">> } }

\* the outcomes of the n fetches one invocation of tool name makes
Outcomes(name, e, n) ==
  IF name = "list_channels" /\ e.SLACK_CHANNEL_IDS # <<>>
  THEN [1..n -> InfoOutcomes]
  ELSE [1..n -> FetchOutcomes]

CallToolRequest(name, args) ==
  [method |-> "tools/call", name |-> name, hasArguments |-> TRUE, arguments |-> args]

\* the history after the calls logged in gate
Count(history, gate) ==
  LET called == {gate[i].endpoint : i \in DOMAIN gate}
      n(ep) == Cardinality({i \in DOMAIN gate : gate[i].endpoint = ep})
      w(ep) == gate[CHOOSE i \in DOMAIN gate : gate[i].endpoint = ep].window
  IN [ep \in DOMAIN history \cup called |->
        IF ep \notin called THEN history[ep]
        ELSE IF ep \in DOMAIN history /\ history[ep].window = w(ep)
        THEN [window |-> w(ep), count |-> history[ep].count + n(ep)]
        ELSE [window |-> w(ep), count |-> n(ep)]]

-----------------------------------------------------------------------------
(* The state machine.                                                      *)

Init ==
  /\ rateLimiter = <<>>
  /\ now = 0
  /\ toolHandlers = SetupToolHandlers
  /\ env \in Envs
  /\ request = [method |-> "none"]
  /\ reply = JsNull
  /\ outbound = <<>>
  /\ gateLog = <<>>
  /\ made = <<>>
  /\ invoked = ""
  /\ calls = 0
  /\ userCache = <<>>
  /\ cacheExpiry = 0
  /\ stages = <<>>
  /\ flights = <<>>

\* the effect of answering req, r being what handleRequest did
Answered(req, r) ==
  /\ rateLimiter' = r.rateLimiter
  /\ request' = req
  /\ reply' = r.result
  /\ outbound' = r.outbound
  /\ gateLog' = r.gate
  /\ made' = Count(made, r.gate)
  /\ invoked' = r.invoked
  /\ calls' = calls + 1
  /\ UNCHANGED <<now, toolHandlers, env, userCache, cacheExpiry, stages, flights>>

\* the server answers the call-tool request req, its fetches ending as o says
Answer(req, o) ==
  Answered(req, HandleRequest(rateLimiter, now, env, toolHandlers, req, o))

\* a call-tool request for tool name with any argument map
\* the number of fetches the server makes for req when each of them succeeds
Fetches(req) ==
  Len(HandleRequest(rateLimiter, now, env, toolHandlers, req,
                    [i \in 1..Len(env.SLACK_CHANNEL_IDS) + 1 |-> "ok"]).outbound)

CallTool(name) ==
  \E args \in ArgMaps(name) :
    \E o \in Outcomes(name, env, Fetches(CallToolRequest(name, args))) :
      Answer(CallToolRequest(name, args), o)

CallAddReaction == calls < MaxCalls /\ CallTool("add_reaction")
CallEditMessage == calls < MaxCalls /\ CallTool("edit_message")
CallGetChannelHistory == calls < MaxCalls /\ CallTool("get_channel_history")
CallGetThreadReplies == calls < MaxCalls /\ CallTool("get_thread_replies")
CallGetUserProfile == calls < MaxCalls /\ CallTool("get_user_profile")
CallGetUsers == calls < MaxCalls /\ CallTool("get_users")
CallListChannels == calls < MaxCalls /\ CallTool("list_channels")
CallPostMessage == calls < MaxCalls /\ CallTool("post_message")
CallReplyToThread == calls < MaxCalls /\ CallTool("reply_to_thread")

\* a call-tool request that carries no arguments
CallWithoutArguments ==
  /\ calls < MaxCalls
  /\ \E name \in {"post_message", "delete_message"} :
       Answer([method |-> "tools/call", name |-> name,
               hasArguments |-> FALSE, arguments |-> <<>>],
              [i \in 1..1 |-> "ok"])

\* a call-tool request for a name that is not in the catalog
CallUnknownTool ==
  /\ calls < MaxCalls
  /\ \E name \in UnknownNames, args \in ArgMaps("post_message") :
       Answer(CallToolRequest(name, args), [i \in 1..1 |-> "ok"])

\* a list-tools request
ListTools ==
  /\ calls < MaxCalls
  /\ request' = [method |-> "tools/list"]
  /\ reply' = HandleTools
  /\ outbound' = <<>>
  /\ gateLog' = <<>>
  /\ invoked' = ""
  /\ calls' = calls + 1
  /\ UNCHANGED <<rateLimiter, now, toolHandlers, env, made, userCache, cacheExpiry, stages,
                 flights>>

\* time passes
Tick ==
  /\ now < MaxTicks * TickMs
  /\ now' = now + TickMs
  /\ UNCHANGED <<rateLimiter, toolHandlers, env, request, reply, outbound,
                 gateLog, made, invoked, calls, userCache, cacheExpiry, stages, flights>>

\* a burst of one caller: the same reaction over and over
BurstAddReaction ==
  /\ calls < MaxBurstCalls
  /\ \E o \in [1..1 -> FetchOutcomes] :
       Answer(CallToolRequest("add_reaction",
                              [channel_id |-> "C1", timestamp |-> "111.222",
                               reaction |-> <<"e", "y", "e", "s">>]), o)

Next ==
  \/ CallAddReaction \/ CallEditMessage \/ CallGetChannelHistory
  \/ CallGetThreadReplies \/ CallGetUserProfile \/ CallGetUsers
  \/ CallListChannels \/ CallPostMessage \/ CallReplyToThread
  \/ CallWithoutArguments \/ CallUnknownTool \/ ListTools \/ Tick

Spec == Init /\ [][Next]_vars

NextBurst == BurstAddReaction \/ Tick

SpecBurst == Init /\ [][NextBurst]_vars

-----------------------------------------------------------------------------
(* What the claims speak of.                                               *)

\* the characters of cs as one string
RECURSIVE Join(_)
Join(cs) == IF cs = <<>> THEN "" ELSE cs[1] \o Join(Tail(cs))

\* s contains sub
Contains(s, sub) ==
  \E i \in 0..(Len(s) - Len(sub)) : SubSeq(s, i + 1, i + Len(sub)) = sub

\* the request just answered is a call-tool request that carries arguments
IsCall(req) == req.method = "tools/call" /\ req.hasArguments

\* the fields tool name requires, in the order of its definition
Required(name) == ToolNamed(name).required

\* field f is absent from args or carries the empty value
Lacking(args, f) ==
  \/ f \notin DOMAIN args
  \/ args[f] = (IF f \in SeqFields THEN <<>> ELSE "")

\* the required fields of tool name that args lacks, in the order of the definition
MissingFields(args, name) == SelectSeq(Required(name), LAMBDA f : Lacking(args, f))

\* a call of a catalog tool that lacks a required field
IsIncompleteCall(req) ==
  /\ IsCall(req)
  /\ req.name \in ToolNames
  /\ MissingFields(req.arguments, req.name) # <<>>

\* the message of the handlers for the fields fs
MissingMessage(fs) ==
  IF Len(fs) = 1 THEN "Missing required argument: " \o fs[1]
  ELSE IF Len(fs) = 2 THEN "Missing required arguments: " \o fs[1] \o " and " \o fs[2]
  ELSE "Missing required arguments: " \o fs[1] \o ", " \o fs[2] \o ", and " \o fs[3]

\* the content envelope: exactly one block, of type text
IsEnvelope(r) ==
  /\ r.type = "object"
  /\ DOMAIN r.obj = {"content"}
  /\ Len(r.obj.content) = 1
  /\ r.obj.content[1].type = "text"
  /\ r.obj.content[1].text.type = "string"

\* the envelope whose text is message
ErrorEnvelope(message) == JsObject(Response(JsString(message), FALSE))

\* r carries message: as a bare string, as the text of an envelope, or as
\* the message of a rejection
Says(r, message) ==
  \/ r = JsString(message)
  \/ r = ErrorEnvelope(message)
  \/ r = JsThrown(message)

\* a call of a text-bearing tool with all its required fields
TextTools == {"post_message", "reply_to_thread", "edit_message"}
IsTextCall(req) ==
  /\ IsCall(req)
  /\ req.name \in TextTools
  /\ MissingFields(req.arguments, req.name) = <<>>

\* the URLs of a text, bare or inside a markdown link
UrlsOf(text) ==
  {text[i].url : i \in {j \in DOMAIN text : text[j].kind = "url"}}
    \cup {text[i].target : i \in {j \in DOMAIN text : text[j].kind = "mdlink"}}

\* the default blocked substrings
BlockedSubstrings ==
  { BitLy, <<"g", "o", "o", ".", "g", "l">>,
    <<"n", "g", "r", "o", "k", ".", "c", "o", "m">>,
    <<"n", "g", "r", "o", "k", ".", "i", "o">>,
    <<"t", "i", "n", "y", "u", "r", "l", ".", "c", "o", "m">> }
AllowedPorts == {80, 443, 8080, 8443}

Render(u) ==
  u.scheme \o "://" \o Join(u.host)
    \o (IF u.port = -1 THEN "" ELSE ":" \o ToString(u.port)) \o u.path

\* what URL validation is to say of u: the message of its rejection, "" when accepted
Rejection(u) ==
  IF u.scheme \notin {"http", "https"} \/ u.host = <<>> \/ u.port > 65535
  THEN "Invalid URL detected: " \o Render(u)
  ELSE IF \E b \in BlockedSubstrings : Contains(u.host, b)
  THEN "Suspicious domain detected: " \o Join(u.host)
  ELSE IF u.port # -1 /\ u.port \notin AllowedPorts
  THEN "Non-standard port detected: " \o ToString(u.port)
  ELSE ""

\* the URLs of a text whose host contains a blocked substring
BlockedUrls(text) ==
  {u \in UrlsOf(text) : \E b \in BlockedSubstrings : Contains(u.host, b)}

-----------------------------------------------------------------------------
(* The earlier revision of the client, printed in src/README.md after the  *)
(* documentation (class SlackClient there).  Its checkRateLimit throws at  *)
(* the cap, and editMessage, postMessage and postReply pass their text     *)
(* through sanitizeText: validateUrls, formatText, the three strippings    *)
(* and resolveMentions, which reads the user cache.  A string is a         *)
(* sequence of characters in this part.                                    *)

\* the characters of the strings the texts, the users and the expressions
\* are made of
Spell ==
     "hello" :> <<"h", "e", "l", "l", "o">>
  @@ "see" :> <<"s", "e", "e">>
  @@ "today" :> <<"t", "o", "d", "a", "y">>
  @@ "docs" :> <<"d", "o", "c", "s">>
  @@ "cc" :> <<"c", "c">>
  @@ "@Jane" :> <<"@", "J", "a", "n", "e">>
  @@ "Doe" :> <<"D", "o", "e">>
  @@ "for" :> <<"f", "o", "r">>
  @@ "review" :> <<"r", "e", "v", "i", "e", "w">>
  @@ "@Random" :> <<"@", "R", "a", "n", "d", "o", "m">>
  @@ "Person" :> <<"P", "e", "r", "s", "o", "n">>
  @@ "http" :> <<"h", "t", "t", "p">>
  @@ "https" :> <<"h", "t", "t", "p", "s">>
  @@ "/x" :> <<"/", "x">>
  @@ "/path" :> <<"/", "p", "a", "t", "h">>
  @@ "" :> <<>>
  @@ "javascript:x" :> <<"j", "a", "v", "a", "s", "c", "r", "i", "p", "t", ":", "x">>
  @@ "$5$" :> <<"$", "5", "$">>
  @@ "raj.p" :> <<"r", "a", "j", ".", "p">>
  @@ "Raj Patel" :> <<"R", "a", "j", " ", "P", "a", "t", "e", "l">>
  @@ "<script" :> <<"<", "s", "c", "r", "i", "p", "t">>
  @@ "</script>" :> <<"<", "/", "s", "c", "r", "i", "p", "t", ">">>
  @@ "[SCRIPT_REMOVED]" :> <<"[", "S", "C", "R", "I", "P", "T", "_", "R", "E", "M", "O", "V", "E", "D", "]">>
  @@ "javascript:" :> <<"j", "a", "v", "a", "s", "c", "r", "i", "p", "t", ":">>
  @@ "[JAVASCRIPT_REMOVED]" :> <<"[", "J", "A", "V", "A", "S", "C", "R", "I", "P", "T", "_", "R", "E", "M", "O", "V", "E", "D", "]">>
  @@ "data:text/html" :> <<"d", "a", "t", "a", ":", "t", "e", "x", "t", "/", "h", "t", "m", "l">>
  @@ "[DATA_URL_REMOVED]" :> <<"[", "D", "A", "T", "A", "_", "U", "R", "L", "_", "R", "E", "M", "O", "V", "E", "D", "]">>
  @@ "Image: " :> <<"I", "m", "a", "g", "e", ":", " ">>
  @@ "- [x] " :> <<"-", " ", "[", "x", "]", " ">>
  @@ "- [ ] " :> <<"-", " ", "[", " ", "]", " ">>
  @@ "jane.d" :> <<"j", "a", "n", "e", ".", "d">>
  @@ "Jane Doe" :> <<"J", "a", "n", "e", " ", "D", "o", "e">>
  @@ "old.bob" :> <<"o", "l", "d", ".", "b", "o", "b">>
  @@ "Bob Old" :> <<"B", "o", "b", " ", "O", "l", "d">>

\* the upper-case letters and their lower case
LowerOf ==
     "A" :> "a" @@ "B" :> "b" @@ "C" :> "c" @@ "D" :> "d" @@ "E" :> "e" @@ "F" :> "f"
  @@ "G" :> "g" @@ "H" :> "h" @@ "I" :> "i" @@ "J" :> "j" @@ "K" :> "k" @@ "L" :> "l"
  @@ "M" :> "m" @@ "N" :> "n" @@ "O" :> "o" @@ "P" :> "p" @@ "Q" :> "q" @@ "R" :> "r"
  @@ "S" :> "s" @@ "T" :> "t" @@ "U" :> "u" @@ "V" :> "v" @@ "W" :> "w" @@ "X" :> "x"
  @@ "Y" :> "y" @@ "Z" :> "z"

Letters == DOMAIN LowerOf \cup {LowerOf[c] : c \in DOMAIN LowerOf}

\* the class \s
WhiteSpace == {" ", "\n", "\t", "\r"}

DigitValue ==
     "0" :> 0 @@ "1" :> 1 @@ "2" :> 2 @@ "3" :> 3 @@ "4" :> 4
  @@ "5" :> 5 @@ "6" :> 6 @@ "7" :> 7 @@ "8" :> 8 @@ "9" :> 9

\* String.prototype.toLowerCase
ToLowerCase(s) ==
  [i \in DOMAIN s |-> IF s[i] \in DOMAIN LowerOf THEN LowerOf[s[i]] ELSE s[i]]

\* String.prototype.trim
TrimChars(s) ==
  LET keep == {i \in DOMAIN s : s[i] \notin WhiteSpace}
  IN IF keep = {} THEN <<>>
     ELSE SubSeq(s, CHOOSE i \in keep : \A j \in keep : i <= j,
                    CHOOSE i \in keep : \A j \in keep : i >= j)

RECURSIVE Split(_, _)
\* String.prototype.split at the character sep
Split(s, sep) ==
  LET cut == {i \in DOMAIN s : s[i] = sep}
  IN IF cut = {} THEN <<s>>
     ELSE <<SubSeq(s, 1, (CHOOSE i \in cut : \A j \in cut : i <= j) - 1)>>
            \o Split(SubSeq(s, (CHOOSE i \in cut : \A j \in cut : i <= j) + 1, Len(s)), sep)

\* the characters of a URL, of a token and of a text as the handler's
\* string has them: the tokens of a text stand one blank apart
UrlChars(u) ==
  Spell[u.scheme] \o <<":", "/", "/">> \o u.host
    \o (IF u.port = -1 THEN <<>> ELSE <<":">> \o Digits(u.port)) \o Spell[u.path]

TokenChars(k) ==
  CASE k.kind = "word" -> Spell[k.word]
    [] k.kind = "url" -> UrlChars(k.url)
    [] k.kind = "mdlink" ->
         <<"[">> \o Spell[k.label] \o <<"]", "(">> \o UrlChars(k.target) \o <<")">>
    [] k.kind = "slacklink" ->
         <<"<">> \o UrlChars(k.target) \o <<"|">> \o Spell[k.label] \o <<">">>

RECURSIVE Characters(_)
Characters(text) ==
  IF text = <<>> THEN <<>>
  ELSE IF Len(text) = 1 THEN TokenChars(text[1])
  ELSE TokenChars(text[1]) \o <<" ">> \o Characters(Tail(text))

(* Regular expressions.  A matcher M(s, i) tells whether its expression    *)
(* matches s at index i: the index of the last character matched (0 when   *)
(* there is no match) and the two groups.                                  *)

NoMatch == [to |-> 0, g1 |-> <<>>, g2 |-> <<>>]
Match(to, g1, g2) == [to |-> to, g1 |-> g1, g2 |-> g2]

\* the last index of the longest run of characters with P that starts at
\* index i of s; i - 1 when there is none
RunEnd(s, i, P(_)) ==
  LET ends == {j \in (i - 1)..Len(s) : \A k \in i..j : P(s[k])}
  IN CHOOSE j \in ends : \A m \in ends : m <= j

\* s has the characters lit at index i
At(s, i, lit) ==
  i + Len(lit) - 1 <= Len(s) /\ SubSeq(s, i, i + Len(lit) - 1) = lit

\* the same whatever the case of the letters of s (flag i); lit is in lower case
AtAnyCase(s, i, lit) ==
  i + Len(lit) - 1 <= Len(s) /\ ToLowerCase(SubSeq(s, i, i + Len(lit) - 1)) = lit

\* the matches of a g expression in s, left to right, each with the
\* substring it matched
MatchAll(s, M(_, _)) ==
  LET from[i \in 1..(Len(s) + 1)] ==
        IF i > Len(s) THEN <<>>
        ELSE IF M(s, i).to = 0 THEN from[i + 1]
        ELSE <<M(s, i) @@ [all |-> SubSeq(s, i, M(s, i).to)]>> \o from[M(s, i).to + 1]
  IN from[1]

\* String.prototype.replace with a g expression; R gives the replacement
\* of a match
ReplaceAll(s, M(_, _), R(_)) ==
  LET from[i \in 1..(Len(s) + 1)] ==
        IF i > Len(s) THEN <<>>
        ELSE IF M(s, i).to = 0 THEN <<s[i]>> \o from[i + 1]
        ELSE R(M(s, i)) \o from[M(s, i).to + 1]
  IN from[1]

\* String.prototype.replace with a string pattern: the first occurrence
ReplaceFirst(s, sub, with) ==
  LET at == {i \in 1..(Len(s) - Len(sub) + 1) : SubSeq(s, i, i + Len(sub) - 1) = sub}
  IN IF at = {} THEN s
     ELSE LET i == CHOOSE j \in at : \A k \in at : j <= k
          IN SubSeq(s, 1, i - 1) \o with \o SubSeq(s, i + Len(sub), Len(s))

(* validateUrls.                                                           *)

suspiciousDomains ==
  << BitLy, <<"g", "o", "o", ".", "g", "l">>,
     <<"n", "g", "r", "o", "k", ".", "c", "o", "m">>,
     <<"n", "g", "r", "o", "k", ".", "i", "o">>,
     <<"t", "i", "n", "y", "u", "r", "l", ".", "c", "o", "m">> >>

allowedPorts == <<Digits(80), Digits(443), Digits(8080), Digits(8443)>>

\* /https?:\/\/[^\s)]+/gi
DirectUrlAt(s, i) ==
  LET p == IF AtAnyCase(s, i, Spell["https"] \o <<":", "/", "/">>) THEN i + 8
           ELSE IF AtAnyCase(s, i, Spell["http"] \o <<":", "/", "/">>) THEN i + 7
           ELSE 0
  IN IF p = 0 THEN NoMatch
     ELSE IF RunEnd(s, p, LAMBDA c : c \notin WhiteSpace /\ c # ")") < p THEN NoMatch
     ELSE Match(RunEnd(s, p, LAMBDA c : c \notin WhiteSpace /\ c # ")"), <<>>, <<>>)

\* the match of \[([^\]]+)\]\(([^)]+)\) whose "[" is at i and whose first
\* group ends at a
MarkdownLinkFrom(s, i, a) ==
  IF a >= i + 1 /\ At(s, a + 1, <<"]", "(">>)
  THEN LET b == RunEnd(s, a + 3, LAMBDA c : c # ")")
       IN IF b >= a + 3 /\ b < Len(s)
          THEN Match(b + 1, SubSeq(s, i + 1, a), SubSeq(s, a + 3, b))
          ELSE NoMatch
  ELSE NoMatch

\* /\[([^\]]+)\]\(([^)]+)\)/g
MarkdownLinkAt(s, i) ==
  IF s[i] = "[" THEN MarkdownLinkFrom(s, i, RunEnd(s, i + 1, LAMBDA c : c # "]"))
  ELSE NoMatch

\* the code points a host may not hold
ForbiddenHostChars ==
  {" ", "\n", "\t", "\r", "#", "/", ":", "<", ">", "?", "@", "[", "\\", "]", "^", "|", "%"}

\* the default port of a scheme, -1 when it has none
DefaultPort(scheme) ==
  IF scheme = Spell["http"] THEN 80 ELSE IF scheme = Spell["https"] THEN 443 ELSE -1

RECURSIVE PortValue(_)
\* the number a string of digits writes
PortValue(ds) ==
  IF ds = <<>> THEN 0 ELSE 10 * PortValue(SubSeq(ds, 1, Len(ds) - 1)) + DigitValue[ds[Len(ds)]]

\* the parse of scheme://hostport..., hostport being the authority
\* without credentials
ParsedAuthority(scheme, hostport) ==
  LET colons == {i \in DOMAIN hostport : hostport[i] = ":"}
      c == IF colons = {} THEN Len(hostport) + 1
           ELSE CHOOSE i \in colons : \A j \in colons : i <= j
      host == SubSeq(hostport, 1, c - 1)
      port == SubSeq(hostport, c + 1, Len(hostport))
  IN IF \/ host = <<>>
        \/ \E i \in DOMAIN host : host[i] \in ForbiddenHostChars
        \/ \E i \in DOMAIN port : port[i] \notin DOMAIN DigitValue
        \/ Len(port) > 5
     THEN [ok |-> FALSE]
     ELSE IF PortValue(port) > 65535 THEN [ok |-> FALSE]
     ELSE [ok |-> TRUE, hostname |-> ToLowerCase(host),
           port |-> IF port = <<>> \/ PortValue(port) = DefaultPort(scheme)
                    THEN <<>> ELSE Digits(PortValue(port))]

\* new URL(url) for the URLs the two expressions of validateUrls can give:
\* hostname and port of an http or https URL; everything else, a relative
\* reference among it, is taken not to parse
ParseUrl(url) ==
  LET p == IF AtAnyCase(url, 1, Spell["https"] \o <<":", "/", "/">>) THEN 9
           ELSE IF AtAnyCase(url, 1, Spell["http"] \o <<":", "/", "/">>) THEN 8
           ELSE 0
  IN IF p = 0 THEN [ok |-> FALSE]
     ELSE LET authority == SubSeq(url, p, RunEnd(url, p, LAMBDA c : c \notin {"/", "?", "#", "\\"}))
              ats == {i \in DOMAIN authority : authority[i] = "@"}
              from == IF ats = {} THEN 1
                      ELSE 1 + CHOOSE i \in ats : \A j \in ats : i >= j
          IN ParsedAuthority(ToLowerCase(SubSeq(url, 1, p - 4)),
                             SubSeq(authority, from, Len(authority)))

\* the list validateUrls tests the host names with
Domains(e) ==
  IF "SLACK_SUSPICIOUS_DOMAINS" \in DOMAIN e /\ e.SLACK_SUSPICIOUS_DOMAINS # <<>>
  THEN LET parts == Split(e.SLACK_SUSPICIOUS_DOMAINS, ",")
       IN [i \in DOMAIN parts |-> TrimChars(parts[i])]
  ELSE suspiciousDomains

\* the body of the loop of validateUrls for one URL: the error it throws,
\* null when it throws none
UrlVerdict(url, parsedUrl, domains) ==
  IF ~parsedUrl.ok THEN JsThrown("Invalid URL detected: " \o Join(url))
  ELSE IF \E k \in DOMAIN domains : Contains(parsedUrl.hostname, domains[k])
  THEN JsThrown("Suspicious domain detected: " \o Join(parsedUrl.hostname))
  ELSE IF parsedUrl.port # <<>> /\ \A k \in DOMAIN allowedPorts : allowedPorts[k] # parsedUrl.port
  THEN JsThrown("Non-standard port detected: " \o Join(parsedUrl.port))
  ELSE JsNull

\* the URLs validateUrls collects: the direct ones, then the targets of the
\* markdown links
UrlsIn(text) ==
  LET direct == MatchAll(text, DirectUrlAt)
      links == MatchAll(text, MarkdownLinkAt)
  IN [i \in DOMAIN direct |-> direct[i].all] \o [i \in DOMAIN links |-> links[i].g2]

\* SlackClient.validateUrls: the error of the first URL that has one
ValidateUrls(text, e) ==
  LET urls == UrlsIn(text)
      thrown == {k \in DOMAIN urls :
                   UrlVerdict(urls[k], ParseUrl(urls[k]), Domains(e)).type = "thrown"}
  IN IF thrown = {} THEN JsNull
     ELSE LET k == CHOOSE i \in thrown : \A j \in thrown : i <= j
          IN UrlVerdict(urls[k], ParseUrl(urls[k]), Domains(e))

(* The rate limiter and getUsers of this revision.                         *)

\* SlackClient.checkRateLimit of this revision: it throws at the cap
CheckRateLimitOrThrow(map, t, endpoint) ==
  LET key == <<endpoint, WindowOf(t)>>
      current == MapGet(map, key)
  IN IF current >= RATE_LIMIT_MAX_REQUESTS
     THEN [rateLimiter |-> map, key |-> key, current |-> current,
           returned |-> JsThrown("Rate limit exceeded for " \o endpoint)]
     ELSE LET set == [k \in DOMAIN map \cup {key} |->
                        IF k = key THEN current + 1 ELSE map[k]]
              kept == {k \in DOMAIN set : ~KeyLess(k, key)}
          IN [rateLimiter |-> [k \in kept |-> set[k]], key |-> key,
              current |-> current, returned |-> JsBoolean(TRUE)]

\* an operation that checkRateLimit has stopped: nothing is sent
Stopped(g) == Done(g, <<>>, g.returned)

\* SlackClient.getUsers of this revision
GetUsersOrThrow(map, t, teamId, limit, cursor, o) ==
  LET g == CheckRateLimitOrThrow(map, t, "getUsers")
      base == [limit |-> ToString(Min(OrDefault(limit, 100), 200)), team_id |-> teamId]
      req == [api |-> "users.list", method |-> "GET",
              params |-> IF cursor # <<>> /\ cursor # <<"">>
                         THEN base @@ [cursor |-> cursor[1]] ELSE base]
  IN IF g.returned.type = "thrown" THEN Stopped(g)
     ELSE Done(g, <<req>>, FetchJson(req, o))

(* The user cache and resolveMentions.                                     *)

CACHE_DURATION == 300000

\* the keys getCachedUsers files a user under
CacheKeys(user) ==
  LET realName == IF "real_name" \in DOMAIN user
                  THEN ToLowerCase(Spell[user.real_name]) ELSE <<>>
      displayName == IF "profile" \in DOMAIN user /\ "display_name" \in DOMAIN user.profile
                     THEN ToLowerCase(Spell[user.profile.display_name]) ELSE <<>>
      username == IF "name" \in DOMAIN user THEN ToLowerCase(Spell[user.name]) ELSE <<>>
  IN (IF realName # <<>> THEN {realName} ELSE {})
       \cup (IF displayName # <<>> /\ displayName # realName THEN {displayName} ELSE {})
       \cup (IF username # <<>> THEN {username} ELSE {})

\* the loop of getCachedUsers over response.members, on the cleared cache
CacheOf(members) ==
  LET after[k \in 0..Len(members)] ==
        IF k = 0 THEN <<>>
        ELSE IF members[k].deleted THEN after[k - 1]
        ELSE [key \in CacheKeys(members[k]) |-> members[k]] @@ after[k - 1]
  IN after[Len(members)]

\* what getCachedUsers does with the answer r of getUsers(200): a rejection
\* is caught, and an answer that is not ok leaves cache and expiry alone
CachedFrom(cache, expiry, t, r) ==
  IF r.result.type = "object" /\ r.result.obj.ok /\ "members" \in DOMAIN r.result.obj
  THEN [userCache |-> CacheOf(r.result.obj.members), cacheExpiry |-> t + CACHE_DURATION,
        rateLimiter |-> r.rateLimiter, gate |-> r.gate, outbound |-> r.outbound]
  ELSE [userCache |-> cache, cacheExpiry |-> expiry,
        rateLimiter |-> r.rateLimiter, gate |-> r.gate, outbound |-> r.outbound]

\* getCachedUsers taking the cache for valid at its expiry still
GetCachedUsersUntilExpiry(cache, expiry, map, t, e, o) ==
  IF DOMAIN cache # {} /\ t <= expiry
  THEN [userCache |-> cache, cacheExpiry |-> expiry,
        rateLimiter |-> map, gate |-> <<>>, outbound |-> <<>>]
  ELSE CachedFrom(cache, expiry, t,
                  GetUsersOrThrow(map, t, e.SLACK_TEAM_ID, <<200>>, <<>>, o))
\* SlackClient.getCachedUsers at time t, its fetch ending as o says: cache
\* and expiry afterwards (the cache is the map it returns), and the map,
\* the check and the request of the getUsers call it made
GetCachedUsers(cache, expiry, map, t, e, o) ==
  IF DOMAIN cache # {} /\ t < expiry
  THEN [userCache |-> cache, cacheExpiry |-> expiry,
        rateLimiter |-> map, gate |-> <<>>, outbound |-> <<>>]
  ELSE CachedFrom(cache, expiry, t,
                  GetUsersOrThrow(map, t, e.SLACK_TEAM_ID, <<200>>, <<>>, o))

\* the match of the mention expression whose "@" is at i, the longest run
\* of letters and blanks after it ending at run
MentionFrom(s, i, run) ==
  LET letters == {k \in (i + 1)..run : s[k] \in Letters}
  IN Match(CHOOSE k \in letters : \A j \in letters : j <= k, <<>>, <<>>)

\* /@([A-Za-z][A-Za-z\s]*[A-Za-z]|[A-Za-z])/g
MentionAt(s, i) ==
  IF s[i] = "@" /\ i < Len(s) /\ s[i + 1] \in Letters
  THEN MentionFrom(s, i, RunEnd(s, i + 1, LAMBDA c : c \in Letters \cup WhiteSpace))
  ELSE NoMatch

\* the loop of resolveMentions over the matches, users being the map
\* getCachedUsers returned
Resolved(text, matches, users) ==
  LET displayName(k) == TrimChars(ToLowerCase(Tail(matches[k].all)))
      after[k \in 0..Len(matches)] ==
        IF k = 0 THEN text
        ELSE IF displayName(k) \in DOMAIN users /\ users[displayName(k)].name # ""
        THEN ReplaceFirst(after[k - 1], matches[k].all,
                          <<"@">> \o Spell[users[displayName(k)].name])
        ELSE after[k - 1]
  IN after[Len(matches)]

\* SlackClient.resolveMentions: the text it returns, with what the call of
\* getCachedUsers did; a text without a match does not reach the cache
ResolveMentions(text, cache, expiry, map, t, e, o) ==
  IF MatchAll(text, MentionAt) = <<>>
  THEN [text |-> text, userCache |-> cache, cacheExpiry |-> expiry,
        rateLimiter |-> map, gate |-> <<>>, outbound |-> <<>>]
  ELSE [text |-> Resolved(text, MatchAll(text, MentionAt),
                          GetCachedUsers(cache, expiry, map, t, e, o).userCache)]
         @@ GetCachedUsers(cache, expiry, map, t, e, o)

(* formatText and the strippings of sanitizeText.  The two characters      *)
(* outside ASCII that formatText writes, and the backtick, stand as one     *)
(* element each.                                                           *)

\* the bullet U+2022, the heavy horizontal line U+2501 and the backtick U+0060
Bullet == "U+2022"
HeavyLine == "U+2501"
Backtick == "U+0060"


\* the class of . : every character but the line terminators
Dot(c) == c \notin {"\n", "\r"}
\* ^ and $ under the flag m
LineStart(s, i) == i = 1 \/ ~Dot(s[i - 1])
LineEnd(s, e) == e = Len(s) \/ ~Dot(s[e + 1])

\* the smallest and the largest member of a set of indices, 0 when it is empty
First(set) == IF set = {} THEN 0 ELSE CHOOSE i \in set : \A j \in set : i <= j
Last(set) == IF set = {} THEN 0 ELSE CHOOSE i \in set : \A j \in set : i >= j

\* ^#{1,6}\s+ at i: the index of the last character of \s+ at its longest,
\* 0 when the expression does not match
HeaderMarkEnd(s, i) ==
  IF LineStart(s, i) /\ s[i] = "#"
  THEN LET h == RunEnd(s, i, LAMBDA c : c = "#")
       IN IF h - i + 1 <= 6 /\ h < Len(s) /\ s[h + 1] \in WhiteSpace
          THEN RunEnd(s, h + 1, LAMBDA c : c \in WhiteSpace)
          ELSE 0
  ELSE 0

\* the match of the header expression whose \s+ ends at p
HeaderFrom(s, p) ==
  IF p = 0 THEN NoMatch
  ELSE Match(RunEnd(s, p + 1, Dot), SubSeq(s, p + 1, RunEnd(s, p + 1, Dot)), <<>>)

\* /^#{1,6}\s+(.+)$/gm: \s+ gives characters back when nothing follows it
HeaderAt(s, i) ==
  LET w == HeaderMarkEnd(s, i)
      h == RunEnd(s, i, LAMBDA c : c = "#")
  IN IF w = 0 THEN NoMatch
     ELSE IF w < Len(s) THEN HeaderFrom(s, w)
     ELSE HeaderFrom(s, Last({p \in (h + 1)..(w - 1) : Dot(s[p + 1])}))

\* /^#{1,6}\s+/gm
HeaderMarkAt(s, i) ==
  IF HeaderMarkEnd(s, i) = 0 THEN NoMatch ELSE Match(HeaderMarkEnd(s, i), <<>>, <<>>)

\* the match of d(.*?)d at i whose closing d is at j, d being two characters
DelimitedFrom(s, i, j) ==
  IF j = 0 THEN NoMatch ELSE Match(j + 1, SubSeq(s, i + 2, j - 1), <<>>)

\* /\*\*(.*?)\*\*/g, /__(.*?)__/g, /~~(.*?)~~/g
DelimitedAt(s, i, d) ==
  IF At(s, i, d)
  THEN DelimitedFrom(s, i, First({j \in (i + 2)..Len(s) :
                                    At(s, j, d) /\ \A k \in (i + 2)..(j - 1) : Dot(s[k])}))
  ELSE NoMatch
BoldAt(s, i) == DelimitedAt(s, i, <<"*", "*">>)
UnderlineBoldAt(s, i) == DelimitedAt(s, i, <<"_", "_">>)
StrikeAt(s, i) == DelimitedAt(s, i, <<"~", "~">>)

\* the match of the emphasis expression at i whose closing * is at j
EmphasisFrom(s, i, j) ==
  IF j = 0 THEN NoMatch ELSE Match(j, SubSeq(s, i + 1, j - 1), <<>>)

\* /(?<!\*)\*(.*?)\*(?!\*)/g
EmphasisAt(s, i) ==
  IF s[i] = "*" /\ (i = 1 \/ s[i - 1] # "*")
  THEN EmphasisFrom(s, i, First({j \in (i + 1)..Len(s) :
                                   /\ s[j] = "*"
                                   /\ (j = Len(s) \/ s[j + 1] # "*")
                                   /\ \A k \in (i + 1)..(j - 1) : Dot(s[k])}))
  ELSE NoMatch

\* /^[-*+]\s+/gm
BulletAt(s, i) ==
  IF LineStart(s, i) /\ s[i] \in {"-", "*", "+"} /\ i < Len(s) /\ s[i + 1] \in WhiteSpace
  THEN Match(RunEnd(s, i + 1, LAMBDA c : c \in WhiteSpace), <<>>, <<>>)
  ELSE NoMatch

\* the match of the image expression whose "!" is at i and whose first
\* group ends at a
ImageFrom(s, i, a) ==
  IF At(s, a + 1, <<"]", "(">>)
  THEN LET b == RunEnd(s, a + 3, LAMBDA c : c # ")")
       IN IF b >= a + 3 /\ b < Len(s)
          THEN Match(b + 1, SubSeq(s, i + 2, a), SubSeq(s, a + 3, b))
          ELSE NoMatch
  ELSE NoMatch

\* /!\[([^\]]*)\]\(([^)]+)\)/g
ImageAt(s, i) ==
  IF At(s, i, <<"!", "[">>) THEN ImageFrom(s, i, RunEnd(s, i + 2, LAMBDA c : c # "]"))
  ELSE NoMatch

\* the expression of the code fence: three backticks, [\w]*, \n (flag g)
FenceAt(s, i) ==
  IF At(s, i, <<Backtick, Backtick, Backtick>>)
  THEN LET w == RunEnd(s, i + 3, IsWordChar)
       IN IF w < Len(s) /\ s[w + 1] = "\n" THEN Match(w + 1, <<>>, <<>>) ELSE NoMatch
  ELSE NoMatch

\* /^---+$/gm
RuleAt(s, i) ==
  IF LineStart(s, i) /\ s[i] = "-"
  THEN LET r == RunEnd(s, i, LAMBDA c : c = "-")
       IN IF r - i + 1 >= 3 /\ LineEnd(s, r) THEN Match(r, <<>>, <<>>) ELSE NoMatch
  ELSE NoMatch

\* /^- \[(x| )\] /gm
TaskAt(s, i) ==
  IF LineStart(s, i) /\ (At(s, i, Spell["- [x] "]) \/ At(s, i, Spell["- [ ] "]))
  THEN Match(i + 5, <<s[i + 3]>>, <<>>)
  ELSE NoMatch

\* the index of the "]" that closes \[\^[^\]]+\] at i, 0 when it does not match
FootnoteEnd(s, i) ==
  IF At(s, i, <<"[", "^">>)
  THEN LET a == RunEnd(s, i + 2, LAMBDA c : c # "]")
       IN IF a >= i + 2 /\ a < Len(s) THEN a + 1 ELSE 0
  ELSE 0

\* /\[\^[^\]]+\]/g
FootnoteAt(s, i) ==
  IF FootnoteEnd(s, i) = 0 THEN NoMatch ELSE Match(FootnoteEnd(s, i), <<>>, <<>>)

\* the match of the footnote definition whose "]" is at a
FootnoteTextFrom(s, a) ==
  IF a # 0 /\ At(s, a + 1, <<":">>)
  THEN LET b == RunEnd(s, a + 2, LAMBDA c : c # "\n")
       IN IF b < a + 2 THEN NoMatch
          ELSE IF b < Len(s) THEN Match(b + 1, <<>>, <<>>)
          ELSE Match(b, <<>>, <<>>)
  ELSE NoMatch

\* /^\[\^[^\]]+\]:[^\n]+\n?/gm
FootnoteTextAt(s, i) ==
  IF LineStart(s, i) THEN FootnoteTextFrom(s, FootnoteEnd(s, i)) ELSE NoMatch

\* /\$([^$]+)\$/g
MathAt(s, i) ==
  IF s[i] = "$"
  THEN LET a == RunEnd(s, i + 1, LAMBDA c : c # "$")
       IN IF a >= i + 1 /\ a < Len(s) THEN Match(a + 1, SubSeq(s, i + 1, a), <<>>)
          ELSE NoMatch
  ELSE NoMatch

\* /\$\$([^$]+)\$\$/g
DisplayMathAt(s, i) ==
  IF At(s, i, <<"$", "$">>)
  THEN LET a == RunEnd(s, i + 2, LAMBDA c : c # "$")
       IN IF a >= i + 2 /\ At(s, a + 1, <<"$", "$">>)
          THEN Match(a + 2, SubSeq(s, i + 2, a), <<>>)
          ELSE NoMatch
  ELSE NoMatch

\* SlackClient.formatText: the sixteen replacements, in their order
FormatText(text) ==
  LET r1 == ReplaceAll(text, HeaderAt, LAMBDA m : <<"*">> \o m.g1 \o <<"*">>)
      r2 == ReplaceAll(r1, BoldAt, LAMBDA m : <<"*">> \o m.g1 \o <<"*">>)
      r3 == ReplaceAll(r2, UnderlineBoldAt, LAMBDA m : <<"*">> \o m.g1 \o <<"*">>)
      r4 == ReplaceAll(r3, EmphasisAt, LAMBDA m : <<"_">> \o m.g1 \o <<"_">>)
      r5 == ReplaceAll(r4, StrikeAt, LAMBDA m : <<"~">> \o m.g1 \o <<"~">>)
      r6 == ReplaceAll(r5, BulletAt, LAMBDA m : <<Bullet, " ">>)
      r7 == ReplaceAll(r6, MarkdownLinkAt, LAMBDA m : <<"<">> \o m.g2 \o <<"|">> \o m.g1 \o <<">">>)
      r8 == ReplaceAll(r7, ImageAt,
                       LAMBDA m : Spell["Image: "] \o <<"<">> \o m.g2 \o <<"|">> \o m.g1 \o <<">">>)
      r9 == ReplaceAll(r8, FenceAt, LAMBDA m : <<Backtick, Backtick, Backtick, "\n">>)
      r10 == ReplaceAll(r9, HeaderMarkAt, LAMBDA m : <<>>)
      r11 == ReplaceAll(r10, RuleAt, LAMBDA m : [k \in 1..10 |-> HeavyLine])
      r12 == ReplaceAll(r11, TaskAt, LAMBDA m : <<Bullet, " ">>)
      r13 == ReplaceAll(r12, FootnoteAt, LAMBDA m : <<>>)
      r14 == ReplaceAll(r13, FootnoteTextAt, LAMBDA m : <<>>)
      r15 == ReplaceAll(r14, MathAt, LAMBDA m : m.g1)
  IN ReplaceAll(r15, DisplayMathAt, LAMBDA m : m.g1)

\* the match of the script expression at i whose opening tag ends at a
ScriptFrom(s, a) ==
  LET j == First({k \in (a + 1)..Len(s) :
                    AtAnyCase(s, k, Spell["</script>"]) /\ \A n \in (a + 1)..(k - 1) : Dot(s[n])})
  IN IF j = 0 THEN NoMatch ELSE Match(j + Len(Spell["</script>"]) - 1, <<>>, <<>>)

\* /<script[^>]*>.*?<\/script>/gi
ScriptAt(s, i) ==
  IF AtAnyCase(s, i, Spell["<script"])
  THEN LET a == RunEnd(s, i + Len(Spell["<script"]), LAMBDA c : c # ">")
       IN IF a < Len(s) THEN ScriptFrom(s, a + 1) ELSE NoMatch
  ELSE NoMatch

\* /javascript:/gi
JavaScriptAt(s, i) ==
  IF AtAnyCase(s, i, Spell["javascript:"]) THEN Match(i + Len(Spell["javascript:"]) - 1, <<>>, <<>>)
  ELSE NoMatch

\* /data:text\/html/gi
DataUrlAt(s, i) ==
  IF AtAnyCase(s, i, Spell["data:text/html"]) THEN Match(i + Len(Spell["data:text/html"]) - 1, <<>>, <<>>)
  ELSE NoMatch

\* the three replacements sanitizeText makes in what formatText gave
StripScripts(formatted) ==
  ReplaceAll(ReplaceAll(ReplaceAll(formatted, ScriptAt, LAMBDA m : Spell["[SCRIPT_REMOVED]"]),
                        JavaScriptAt, LAMBDA m : Spell["[JAVASCRIPT_REMOVED]"]),
             DataUrlAt, LAMBDA m : Spell["[DATA_URL_REMOVED]"])

(* sanitizeText and the three operations that call it.                     *)

\* one step of sanitizeText: what it was given and what it gave
Stage(name, input, output) == [stage |-> name, input |-> input, output |-> output]

\* sanitizeText after resolveMentions, m being what resolveMentions did
SanitizedWith(text, formatted, sanitized, m) ==
  [thrown |-> JsNull, text |-> m.text,
   userCache |-> m.userCache, cacheExpiry |-> m.cacheExpiry,
   rateLimiter |-> m.rateLimiter, gate |-> m.gate, outbound |-> m.outbound,
   stages |-> << Stage("validateUrls", text, text),
                 Stage("formatText", text, formatted),
                 Stage("replace", formatted, sanitized),
                 Stage("resolveMentions", sanitized, m.text) >>]

\* sanitizeText after the three replacements
SanitizedFrom(text, formatted, sanitized, cache, expiry, map, t, e, o) ==
  SanitizedWith(text, formatted, sanitized,
                ResolveMentions(sanitized, cache, expiry, map, t, e, o))

\* sanitizeText after formatText
Formatted(text, formatted, cache, expiry, map, t, e, o) ==
  SanitizedFrom(text, formatted, StripScripts(formatted), cache, expiry, map, t, e, o)

\* sanitizeText after validateUrls, verdict being what validateUrls threw
Validated(text, verdict, cache, expiry, map, t, e, o) ==
  IF verdict.type = "thrown"
  THEN [thrown |-> verdict, text |-> text, userCache |-> cache, cacheExpiry |-> expiry,
        rateLimiter |-> map, gate |-> <<>>, outbound |-> <<>>,
        stages |-> <<Stage("validateUrls", text, verdict)>>]
  ELSE Formatted(text, FormatText(text), cache, expiry, map, t, e, o)

\* SlackClient.sanitizeText: the error it throws or the text it returns,
\* the steps it took, and what the cache lookup of resolveMentions did
SanitizeText(text, cache, expiry, map, t, e, o) ==
  Validated(text, ValidateUrls(text, e), cache, expiry, map, t, e, o)

\* the rest of editMessage, postMessage and postReply after sanitizeText, s
\* being what sanitizeText did: the request goes out unless it threw
SentAfter(g, s, api, body, o) ==
  IF s.thrown.type = "thrown"
  THEN [rateLimiter |-> s.rateLimiter, gate |-> <<Gate(g, <<>>)>> \o s.gate,
        outbound |-> s.outbound, result |-> s.thrown,
        userCache |-> s.userCache, cacheExpiry |-> s.cacheExpiry, stages |-> s.stages]
  ELSE [rateLimiter |-> s.rateLimiter,
        gate |-> <<Gate(g, <<[api |-> api]>>)>> \o s.gate,
        outbound |-> s.outbound
                       \o <<[api |-> api, method |-> "POST", body |-> body @@ [text |-> s.text]]>>,
        result |-> FetchJson([api |-> api, method |-> "POST",
                              body |-> body @@ [text |-> s.text]], o),
        userCache |-> s.userCache, cacheExpiry |-> s.cacheExpiry, stages |-> s.stages]

\* checkRateLimit, sanitizeText and fetch, as the three operations do them;
\* o.users and o.post are the outcomes of the two fetches
SanitizedAndSent(endpoint, api, body, text, cache, expiry, map, t, e, o) ==
  LET g == CheckRateLimitOrThrow(map, t, endpoint)
  IN IF g.returned.type = "thrown"
     THEN Stopped(g) @@ [userCache |-> cache, cacheExpiry |-> expiry, stages |-> <<>>]
     ELSE SentAfter(g, SanitizeText(text, cache, expiry, g.rateLimiter, t, e, o.users),
                    api, body, o.post)

\* SlackClient.editMessage of this revision
EditMessageSanitized(cache, expiry, map, t, e, channel_id, timestamp, text, o) ==
  SanitizedAndSent("editMessage", "chat.update",
                   [channel |-> channel_id, ts |-> timestamp, unfurl_links |-> FALSE,
                    unfurl_media |-> FALSE, parse |-> "full", link_names |-> FALSE],
                   text, cache, expiry, map, t, e, o)

\* SlackClient.postMessage of this revision
PostMessageSanitized(cache, expiry, map, t, e, channel_id, text, o) ==
  SanitizedAndSent("postMessage", "chat.postMessage",
                   [channel |-> channel_id, unfurl_links |-> FALSE,
                    unfurl_media |-> FALSE, parse |-> "full", link_names |-> FALSE],
                   text, cache, expiry, map, t, e, o)

\* SlackClient.postReply of this revision
PostReplySanitized(cache, expiry, map, t, e, channel_id, thread_ts, text, broadcast, o) ==
  SanitizedAndSent("postReply", "chat.postMessage",
                   IF OrDefault(broadcast, FALSE)
                   THEN [channel |-> channel_id, thread_ts |-> thread_ts,
                         unfurl_links |-> FALSE, unfurl_media |-> FALSE, parse |-> "full",
                         link_names |-> FALSE, reply_broadcast |-> TRUE]
                   ELSE [channel |-> channel_id, thread_ts |-> thread_ts,
                         unfurl_links |-> FALSE, unfurl_media |-> FALSE, parse |-> "full",
                         link_names |-> FALSE],
                   text, cache, expiry, map, t, e, o)

(* The handlers of the server over this revision of the client: a handler  *)
(* converts the text of the call with slackifyMarkdown and hands the       *)
(* string to the operation.                                                *)

\* calls in one behaviour of SpecSanitizing
MaxSanitizingCalls == 2
\* clock steps of the cache in one behaviour, and one such step in ms
MaxCacheTicks == 2
CacheTickMs == 150000

\* the texts the callers send: those with a mention, and the others
MentionTexts ==
  { <<Word("cc"), Word("@Jane"), Word("Doe")>>,
    <<Word("cc"), Word("@Jane"), Word("Doe"), Word("for"), Word("review")>>,
    <<Word("@Random"), Word("Person")>> }
SanitizingTexts ==
  MentionTexts \cup
  { <<Word("hello")>>,
    <<Word("see"), BareUrl(Url("http", BitLy, -1, "/x")), Word("today")>>,
    <<MdLink("docs", Url("http", ExampleCom, -1, ""))>>,
    <<MdLink("docs", Url("http", ExampleCom, 9999, ""))>>,
    <<Word("javascript:x"), Word("$5$")>>,
    <<Word("cc"), Word("@Jane"), Word("Doe"), BareUrl(Url("http", BitLy, -1, "/x"))>> }
\* the texts the callers of edit_message and reply_to_thread send
FewTexts ==
  { <<Word("hello")>>, <<Word("cc"), Word("@Jane"), Word("Doe")>> }

\* process.env: SLACK_SUSPICIOUS_DOMAINS unset, empty, or a list of its own
SanitizingEnvs ==
  { [SLACK_TEAM_ID |-> "T01234567", SLACK_CHANNEL_IDS |-> <<>>],
    [SLACK_TEAM_ID |-> "T01234567", SLACK_CHANNEL_IDS |-> <<>>,
     SLACK_SUSPICIOUS_DOMAINS |-> <<>>],
    [SLACK_TEAM_ID |-> "T01234567", SLACK_CHANNEL_IDS |-> <<>>,
     SLACK_SUSPICIOUS_DOMAINS |-> <<"e", "v", "i", "l", ".", "i", "o", ",", " ">> \o ExampleCom] }

\* the outcomes of the two fetches a call can make, users.list and the
\* post; only a text with a mention has the first
SanitizingOutcomes(text) ==
  [users : IF text \in MentionTexts THEN FetchOutcomes ELSE {"ok"}, post : FetchOutcomes]

InitSanitizing ==
  /\ rateLimiter = <<>>
  /\ now = 0
  /\ toolHandlers = SetupToolHandlers
  /\ env \in SanitizingEnvs
  /\ request = [method |-> "none"]
  /\ reply = JsNull
  /\ outbound = <<>>
  /\ gateLog = <<>>
  /\ made = <<>>
  /\ invoked = ""
  /\ calls = 0
  /\ userCache = <<>>
  /\ cacheExpiry = 0
  /\ stages = <<>>
  /\ flights = <<>>

\* the effect of handler h answering req, r being what the operation did
Sanitized(req, h, r) ==
  /\ rateLimiter' = r.rateLimiter
  /\ userCache' = r.userCache
  /\ cacheExpiry' = r.cacheExpiry
  /\ stages' = r.stages
  /\ request' = req
  /\ reply' = r.result
  /\ outbound' = r.outbound
  /\ gateLog' = r.gate
  /\ made' = Count(made, r.gate)
  /\ invoked' = h
  /\ calls' = calls + 1
  /\ UNCHANGED <<now, toolHandlers, env, flights>>

\* handleEditMessage
EditSanitizing ==
  /\ calls < MaxSanitizingCalls
  /\ \E text \in FewTexts : \E o \in SanitizingOutcomes(text) :
       \E r \in {EditMessageSanitized(userCache, cacheExpiry, rateLimiter, now, env,
                                      "C1", "111.222",
                                      Characters(SlackifyMarkdown(text)), o)} :
         Sanitized(CallToolRequest("edit_message",
                                   [channel_id |-> "C1", timestamp |-> "111.222",
                                    text |-> text]),
                   "handleEditMessage", r)

\* handlePostMessage
PostSanitizing ==
  /\ calls < MaxSanitizingCalls
  /\ \E text \in SanitizingTexts : \E o \in SanitizingOutcomes(text) :
       \E r \in {PostMessageSanitized(userCache, cacheExpiry, rateLimiter, now, env,
                                      "C1", Characters(SlackifyMarkdown(text)), o)} :
         Sanitized(CallToolRequest("post_message", [channel_id |-> "C1", text |-> text]),
                   "handlePostMessage", r)

\* handleReplyToThread
ReplySanitizing ==
  /\ calls < MaxSanitizingCalls
  /\ \E text \in FewTexts : \E o \in SanitizingOutcomes(text) :
       \E r \in {PostReplySanitized(userCache, cacheExpiry, rateLimiter, now, env,
                                    "C1", "111.000",
                                    Characters(SlackifyMarkdown(text)), <<>>, o)} :
         Sanitized(CallToolRequest("reply_to_thread",
                                   [channel_id |-> "C1", thread_ts |-> "111.000",
                                    text |-> text]),
                   "handleReplyToThread", r)

\* time passes, half a cache duration at a time
TickCache ==
  /\ now < MaxCacheTicks * CacheTickMs
  /\ now' = now + CacheTickMs
  /\ UNCHANGED <<rateLimiter, toolHandlers, env, request, reply, outbound,
                 gateLog, made, invoked, calls, userCache, cacheExpiry, stages, flights>>

NextSanitizing == EditSanitizing \/ PostSanitizing \/ ReplySanitizing \/ TickCache

SpecSanitizing == InitSanitizing /\ [][NextSanitizing]_vars

(* A burst on this revision: one caller posting a text that URL validation  *)
(* rejects, over and over, who replies to a thread once and in the end     *)
(* posts a text without a URL.                                             *)

\* calls in one behaviour of SpecRejectedBurst
MaxRejectedBurstCalls == 63

\* the server at its start, SLACK_SUSPICIOUS_DOMAINS not set
InitDefaults ==
  /\ InitSanitizing
  /\ "SLACK_SUSPICIOUS_DOMAINS" \notin DOMAIN env

\* the number of calls made to endpoint in the window of time t
MadeIn(endpoint, t) ==
  IF endpoint \in DOMAIN made /\ made[endpoint].window = WindowOf(t)
  THEN made[endpoint].count ELSE 0

\* handlePostMessage, for the text with the bit.ly URL
BurstPostRejected ==
  /\ calls < MaxRejectedBurstCalls
  /\ \E text \in {<<Word("see"), BareUrl(Url("http", BitLy, -1, "/x")), Word("today")>>} :
       \E r \in {PostMessageSanitized(userCache, cacheExpiry, rateLimiter, now, env, "C1",
                                      Characters(SlackifyMarkdown(text)),
                                      [users |-> "ok", post |-> "ok"])} :
         Sanitized(CallToolRequest("post_message", [channel_id |-> "C1", text |-> text]),
                   "handlePostMessage", r)

\* handlePostMessage, for a text without a URL, once RATE_LIMIT_MAX_REQUESTS
\* calls of postMessage were made in the window
BurstPostClean ==
  /\ calls < MaxRejectedBurstCalls
  /\ MadeIn("postMessage", now) >= RATE_LIMIT_MAX_REQUESTS
  /\ \E text \in {<<Word("hello")>>} : \E post \in FetchOutcomes :
       \E r \in {PostMessageSanitized(userCache, cacheExpiry, rateLimiter, now, env, "C1",
                                      Characters(SlackifyMarkdown(text)),
                                      [users |-> "ok", post |-> post])} :
         Sanitized(CallToolRequest("post_message", [channel_id |-> "C1", text |-> text]),
                   "handlePostMessage", r)

\* handleReplyToThread, once
BurstReply ==
  /\ calls < MaxRejectedBurstCalls
  /\ "postReply" \notin DOMAIN made
  /\ \E text \in {<<Word("hello")>>} :
       \E r \in {PostReplySanitized(userCache, cacheExpiry, rateLimiter, now, env,
                                    "C1", "111.000",
                                    Characters(SlackifyMarkdown(text)), <<>>,
                                    [users |-> "ok", post |-> "ok"])} :
         Sanitized(CallToolRequest("reply_to_thread",
                                   [channel_id |-> "C1", thread_ts |-> "111.000",
                                    text |-> text]),
                   "handleReplyToThread", r)

NextRejectedBurst == BurstPostRejected \/ BurstPostClean \/ BurstReply

SpecRejectedBurst == InitDefaults /\ [][NextRejectedBurst]_vars
(* formatText by itself: a text of a few characters is converted, and the  *)
(* result is converted again.                                              *)

\* the longest text converted, and the number of conversions in a row
MaxTextLen == 5
MaxConversions == 3

\* the characters of the texts converted
FormatChars == {"*", "_", "#", " ", "x"}
FormatInputs == UNION {[1..n -> FormatChars] : n \in 0..MaxTextLen}

\* what the steps taken so far and one more formatText, of text, are
Converted(text, formatted) ==
  /\ stages' = Append(stages, Stage("formatText", text, formatted))
  /\ UNCHANGED <<rateLimiter, now, toolHandlers, env, request, reply, outbound,
                 gateLog, made, invoked, calls, userCache, cacheExpiry, flights>>

\* formatText of a text
Convert ==
  /\ stages = <<>>
  /\ \E text \in FormatInputs : Converted(text, FormatText(text))

\* formatText of what the last formatText returned
ConvertAgain ==
  /\ stages # <<>>
  /\ Len(stages) < MaxConversions
  /\ Converted(stages[Len(stages)].output, FormatText(stages[Len(stages)].output))

NextFormat == Convert \/ ConvertAgain

SpecFormat == InitDefaults /\ [][NextFormat]_vars
(* Overlapping calls on this revision.  The request handler is async and    *)
(* the server does not wait for one call to end before it takes the next:  *)
(* a call runs without interruption up to an await of a fetch, where other *)
(* calls run.  postMessage awaits the users.list fetch of getCachedUsers,  *)
(* when it makes one, and the chat.postMessage fetch.                      *)

\* post_message calls in one behaviour of SpecConcurrent
MaxInFlight == 2

\* the texts of the overlapping calls
OverlapTexts == { <<Word("hello")>>, <<Word("cc"), Word("@Jane"), Word("Doe")>> }

\* the request postMessage sends for the sanitized text
PostRequest(channel_id, sanitizedText) ==
  [api |-> "chat.postMessage", method |-> "POST",
   body |-> [channel |-> channel_id, text |-> sanitizedText, unfurl_links |-> FALSE,
             unfurl_media |-> FALSE, parse |-> "full", link_names |-> FALSE]]

\* a call in flight: where it waits (pc), the request whose answer it
\* awaits, the text it holds and the time getCachedUsers read
Flight(pc, awaited, text, t) == [pc |-> pc, awaited |-> awaited, text |-> text, t |-> t]

\* a call that has run up to an await, or to its end: the map and the
\* checks it made, the request it sent, and what it threw
Ran(map, gate, sent, flight, thrown) ==
  [rateLimiter |-> map, gate |-> gate, sent |-> sent, flight |-> flight, thrown |-> thrown]

\* postMessage from sanitizeText's call of resolveMentions on, sanitized
\* being the text after formatText and the three replacements: without a
\* mention, or with a cache that is valid, the post goes out; else getUsers
\* is called, whose check may throw (getCachedUsers catches that and
\* returns the cache as it is) and whose fetch is awaited
RanToAwait(g, sanitized, lookup, cache, expiry, t) ==
  IF MatchAll(sanitized, MentionAt) = <<>> \/ (DOMAIN cache # {} /\ t < expiry)
  THEN LET req == PostRequest("C1", Resolved(sanitized, MatchAll(sanitized, MentionAt), cache))
       IN Ran(g.rateLimiter, <<Gate(g, <<req>>)>>, <<req>>,
              Flight("post", req, req.body.text, t), JsNull)
  ELSE IF lookup.outbound = <<>>
  THEN LET req == PostRequest("C1", Resolved(sanitized, MatchAll(sanitized, MentionAt), cache))
       IN Ran(lookup.rateLimiter, <<Gate(g, <<req>>)>> \o lookup.gate, <<req>>,
              Flight("post", req, req.body.text, t), JsNull)
  ELSE Ran(lookup.rateLimiter, <<Gate(g, lookup.outbound)>> \o lookup.gate, lookup.outbound,
           Flight("users", lookup.outbound[1], sanitized, t), JsNull)

\* postMessage up to its first await: checkRateLimit, validateUrls,
\* formatText and the replacements, and the start of resolveMentions
UpToFirstAwait(g, verdict, text, cache, expiry, t, e) ==
  IF g.returned.type = "thrown"
  THEN Ran(g.rateLimiter, <<Gate(g, <<>>)>>, <<>>, Flight("done", JsNull, text, t), g.returned)
  ELSE IF verdict.type = "thrown"
  THEN Ran(g.rateLimiter, <<Gate(g, <<>>)>>, <<>>, Flight("done", JsNull, text, t), verdict)
  ELSE RanToAwait(g, StripScripts(FormatText(text)),
                  GetUsersOrThrow(g.rateLimiter, t, e.SLACK_TEAM_ID, <<200>>, <<>>, "ok"),
                  cache, expiry, t)

\* getCachedUsers and resolveMentions after the users.list fetch of flight
\* f ended as o says, and the request postMessage then sends
AfterUsersList(f, cache, expiry, o) ==
  LET cached == CachedFrom(cache, expiry, f.t,
                           [result |-> FetchJson(f.awaited, o), rateLimiter |-> <<>>,
                            gate |-> <<>>, outbound |-> <<>>])
  IN [userCache |-> cached.userCache, cacheExpiry |-> cached.cacheExpiry,
      post |-> PostRequest("C1", Resolved(f.text, MatchAll(f.text, MentionAt),
                                          cached.userCache))]

\* handlePostMessage takes a call and runs it up to its first await
BeginPostMessage ==
  /\ calls < MaxInFlight
  /\ \E text \in OverlapTexts :
       \E r \in {UpToFirstAwait(CheckRateLimitOrThrow(rateLimiter, now, "postMessage"),
                                ValidateUrls(Characters(SlackifyMarkdown(text)), env),
                                Characters(SlackifyMarkdown(text)),
                                userCache, cacheExpiry, now, env)} :
         /\ flights' = ((calls + 1) :> r.flight) @@ flights
         /\ rateLimiter' = r.rateLimiter
         /\ outbound' = outbound \o r.sent
         /\ gateLog' = r.gate
         /\ made' = Count(made, r.gate)
         /\ request' = CallToolRequest("post_message", [channel_id |-> "C1", text |-> text])
         /\ reply' = IF r.flight.pc = "done" THEN r.thrown ELSE reply
         /\ invoked' = "handlePostMessage"
         /\ calls' = calls + 1
         /\ UNCHANGED <<now, toolHandlers, env, userCache, cacheExpiry, stages>>

\* the users.list fetch of a call ends: the call goes on to its post
UsersListAnswered ==
  \E c \in DOMAIN flights :
    /\ flights[c].pc = "users"
    /\ \E o \in FetchOutcomes :
         \E r \in {AfterUsersList(flights[c], userCache, cacheExpiry, o)} :
           /\ userCache' = r.userCache
           /\ cacheExpiry' = r.cacheExpiry
           /\ outbound' = Append(outbound, r.post)
           /\ flights' = [flights EXCEPT
                            ![c] = Flight("post", r.post, r.post.body.text, flights[c].t)]
           /\ UNCHANGED <<rateLimiter, now, toolHandlers, env, request, reply,
                          gateLog, made, invoked, calls, stages>>

\* the chat.postMessage fetch of a call ends, and the call with it
PostMessageAnswered ==
  \E c \in DOMAIN flights :
    /\ flights[c].pc = "post"
    /\ \E o \in FetchOutcomes :
         /\ reply' = FetchJson(flights[c].awaited, o)
         /\ flights' = [flights EXCEPT ![c] = Flight("done", JsNull, flights[c].text,
                                                    flights[c].t)]
         /\ UNCHANGED <<rateLimiter, now, toolHandlers, env, request, outbound,
                        gateLog, made, invoked, calls, userCache, cacheExpiry, stages>>

NextConcurrent == BeginPostMessage \/ UsersListAnswered \/ PostMessageAnswered

SpecConcurrent == InitDefaults /\ [][NextConcurrent]_vars
-----------------------------------------------------------------------------
(* The claims.                                                             *)

\* C1: for every endpoint and every window, the first RATE_LIMIT_MAX_REQUESTS
\* calls made to the endpoint in the window are admitted (checkRateLimit lets
\* the operation go on and the request goes out), every later call in the
\* window is rejected with RateLimited and sends nothing, and the count
\* starts again with the next window.
C1_SixtyPerWindow ==
  \A i \in DOMAIN gateLog :
    LET g == gateLog[i]
    IN /\ made[g.endpoint].window = g.window
       /\ IF made[g.endpoint].count <= RATE_LIMIT_MAX_REQUESTS
          THEN g.returned = JsBoolean(TRUE) /\ g.sent > 0
          ELSE g.sent = 0 /\ Says(reply, RateLimitMessage(g.endpoint))

\* C2: when checkRateLimit finds the count of (endpoint, window) at the cap,
\* the operation ends with the RateLimited error naming the endpoint and
\* sends no request.
C2_GateStopsTheCall ==
  \A i \in DOMAIN gateLog :
    gateLog[i].current >= RATE_LIMIT_MAX_REQUESTS
      => /\ gateLog[i].sent = 0
         /\ outbound = <<>>
         /\ Says(reply, RateLimitMessage(gateLog[i].endpoint))

\* C3: a post, reply or edit whose text has a URL with a blocked host aborts
\* with SuspiciousDomain before anything is sent.
C3_BlockedHostNothingSent ==
  (IsTextCall(request) /\ BlockedUrls(request.arguments.text) # {})
    => /\ outbound = <<>>
       /\ \E u \in BlockedUrls(request.arguments.text) : Says(reply, Rejection(u))

\* C4: when the client operation of a tool call fails with RateLimited, the
\* call completes with the error envelope whose text is the failure; no
\* rejection leaves the call-tool handler.
C4_FailureBecomesEnvelope ==
  \A i \in DOMAIN gateLog :
    gateLog[i].current >= RATE_LIMIT_MAX_REQUESTS
      => reply = ErrorEnvelope(RateLimitMessage(gateLog[i].endpoint))

\* C5: whatever the call-tool handler returns (structured result, plain
\* string, no argument map, unknown tool) is a content envelope with exactly
\* one text block, never a bare string; a structured result is serialized and
\* a plain string is passed through.
C5_AlwaysAnEnvelope ==
  (request.method = "tools/call" /\ reply.type # "thrown") => IsEnvelope(reply)

\* C6: a call of a tool that lacks a required field, or gives it empty, sends
\* nothing, calls no client operation and leaves the rate-limit map as it
\* was; seven tools have required fields.
C6_IncompleteCallTouchesNothing ==
  [][ /\ Cardinality({name \in ToolNames : Required(name) # <<>>}) = 7
      /\ (calls' = calls + 1 /\ IsIncompleteCall(request'))
           => /\ outbound' = <<>>
              /\ gateLog' = <<>>
              /\ rateLimiter' = rateLimiter ]_vars

\* a call of post_message without text, after a call that counted
C6_Witness ==
  /\ IsIncompleteCall(request)
  /\ request.name = "post_message"
  /\ request.arguments = [channel_id |-> "C1"]
  /\ outbound = <<>>
  /\ rateLimiter # <<>>

\* C7: a call with arguments for a name without a handler returns UnknownTool
\* naming the tool, invokes no handler, sends nothing and leaves the
\* rate-limit map as it was; a call without an argument map returns
\* MissingArguments.
C7_UnknownToolAndNoArguments ==
  [][ (calls' = calls + 1 /\ request'.method = "tools/call")
        => IF ~request'.hasArguments
           THEN Says(reply', "No arguments provided")
           ELSE request'.name \notin DOMAIN toolHandlers
                  => /\ Says(reply', "Unknown tool: " \o request'.name)
                     /\ invoked' = ""
                     /\ outbound' = <<>>
                     /\ gateLog' = <<>>
                     /\ rateLimiter' = rateLimiter ]_vars

\* a call of an unknown tool with a full argument map, after a call that counted
C7_Witness ==
  /\ IsCall(request)
  /\ request.name = "delete_message"
  /\ request.arguments = [channel_id |-> "C1", text |-> <<Word("hello")>>]
  /\ Says(reply, "Unknown tool: delete_message")
  /\ rateLimiter # <<>>

\* C8, as stated: the error text of an incomplete call names exactly the
\* required fields the argument map lacks.
C8_NamesExactlyTheMissing ==
  IsIncompleteCall(request)
    => reply = ErrorEnvelope(MissingMessage(MissingFields(request.arguments, request.name)))

\* C8, amended: the error text of an incomplete call names every required
\* field of the tool, whichever of them the argument map lacks.
C8_NamesAllRequired ==
  IsIncompleteCall(request)
    => reply = ErrorEnvelope(MissingMessage(Required(request.name)))

\* a call of post_message that lacks the text alone
C8_Witness ==
  /\ IsIncompleteCall(request)
  /\ request.name = "post_message"
  /\ MissingFields(request.arguments, request.name) = <<"text">>
  /\ reply = ErrorEnvelope("Missing required arguments: channel_id and text")

C10_UrlVerdicts ==
  IsTextCall(request)
    => LET rejected == {u \in UrlsOf(request.arguments.text) : Rejection(u) # ""}
       IN IF rejected = {}
          THEN outbound # <<>>
          ELSE /\ outbound = <<>>
               /\ \E u \in rejected : Says(reply, Rejection(u))

\* a call of tool name that carries all its required fields
IsCompleteCall(req, name) ==
  /\ IsCall(req)
  /\ req.name = name
  /\ MissingFields(req.arguments, name) = <<>>

\* C12: every request that edit_message, post_message and reply_to_thread
\* send carries unfurl_links false, unfurl_media false, parse "full" and
\* link_names false.
C12_FlagsOfTextRequests ==
  IsTextCall(request)
    => \A i \in DOMAIN outbound :
         /\ outbound[i].body.unfurl_links = FALSE
         /\ outbound[i].body.unfurl_media = FALSE
         /\ outbound[i].body.parse = "full"
         /\ outbound[i].body.link_names = FALSE

\* the tools that take a limit, with the default and the maximum of each
LimitTools ==
     "list_channels" :> [default |-> 100, max |-> 200]
  @@ "get_users" :> [default |-> 100, max |-> 200]
  @@ "get_channel_history" :> [default |-> 10, max |-> 1000]

IsLimitCall(req) == \E name \in DOMAIN LimitTools : IsCompleteCall(req, name)

\* min(L, max) for the limit L of the call, the default when it gives none
ExpectedLimit(req) ==
  LET L == IF "limit" \in DOMAIN req.arguments THEN req.arguments.limit
           ELSE LimitTools[req.name].default
  IN IF L > LimitTools[req.name].max THEN LimitTools[req.name].max ELSE L

\* request i of the call carries the expected limit
CarriesExpectedLimit(i) ==
  /\ "limit" \in DOMAIN outbound[i].params
  /\ outbound[i].params.limit = ToString(ExpectedLimit(request))

\* C15, as stated: list_channels and get_users send min(L, 200) and
\* get_channel_history sends min(L, 1000) as the limit of the request, with
\* 100, 100 and 10 for an absent L.
C15_ClampedLimitSent ==
  IsLimitCall(request)
    => /\ outbound # <<>>
       /\ \A i \in DOMAIN outbound : CarriesExpectedLimit(i)

\* C15, amended: the same of get_users, of get_channel_history and of
\* list_channels without SLACK_CHANNEL_IDS; with SLACK_CHANNEL_IDS set,
\* list_channels sends one conversations.info lookup per listed id at most,
\* none of which carries a limit.
C15_ClampedUnlessPredefined ==
  IsLimitCall(request)
    => IF request.name = "list_channels" /\ env.SLACK_CHANNEL_IDS # <<>>
       THEN /\ Len(outbound) <= Len(env.SLACK_CHANNEL_IDS)
            /\ \A i \in DOMAIN outbound :
                 /\ outbound[i].api = "conversations.info"
                 /\ "limit" \notin DOMAIN outbound[i].params
       ELSE /\ Len(outbound) = 1
            /\ CarriesExpectedLimit(1)

\* list_channels with limit 500 and no SLACK_CHANNEL_IDS sends limit=200
C15_Witness ==
  /\ IsCompleteCall(request, "list_channels")
  /\ "limit" \in DOMAIN request.arguments
  /\ request.arguments.limit = 500
  /\ env.SLACK_CHANNEL_IDS = <<>>
  /\ Len(outbound) = 1
  /\ outbound[1].params.limit = "200"

\* no request of the call is sent a second time, and a call sends no more
\* requests than its operation has fetches
NoSecondAttempt ==
  /\ \A i, j \in DOMAIN outbound : outbound[i] = outbound[j] => i = j
  /\ IF request.method = "tools/call" /\ request.name = "list_channels"
        /\ env.SLACK_CHANNEL_IDS # <<>>
     THEN Len(outbound) <= Len(env.SLACK_CHANNEL_IDS)
     ELSE Len(outbound) <= 1

\* a fetch that failed or answered not-ok is what the call reports
FailureHandedBack ==
  (request.method = "tools/call" /\ Len(outbound) = 1)
    => \/ reply = JsThrown("fetch failed")
       \/ reply.type = "object"

\* C16: no request is retried or queued: each is issued at most once, a
\* failed or not-ok response is handed back without a second attempt, and a
\* call that checkRateLimit finds at the cap returns at once.
C16_OnceAndAtOnce ==
  /\ NoSecondAttempt
  /\ FailureHandedBack
  /\ \A i \in DOMAIN gateLog :
       gateLog[i].current >= RATE_LIMIT_MAX_REQUESTS
         => gateLog[i].sent = 0 /\ outbound = <<>>

\* the characters add_reaction keeps
ReactionClass ==
  {"a", "b", "c", "d", "e", "f", "g", "h", "i", "j", "k", "l", "m", "n", "o",
   "p", "q", "r", "s", "t", "u", "v", "w", "x", "y", "z"}
    \cup {"A", "B", "C", "D", "E", "F", "G", "H", "I", "J", "K", "L", "M", "N",
          "O", "P", "Q", "R", "S", "T", "U", "V", "W", "X", "Y", "Z"}
    \cup {"0", "1", "2", "3", "4", "5", "6", "7", "8", "9"} \cup {"_"}

RECURSIVE Stripped(_)
\* cs without its characters outside ReactionClass, the rest in order
Stripped(cs) ==
  IF cs = <<>> THEN <<>>
  ELSE (IF cs[1] \in ReactionClass THEN <<cs[1]>> ELSE <<>>) \o Stripped(Tail(cs))

\* C17: add_reaction sends as name the reaction it was given without the
\* characters outside [A-Za-z0-9_], the rest in their order, and sends the
\* channel and the timestamp as given.
C17_ReactionNameFiltered ==
  IsCompleteCall(request, "add_reaction")
    => /\ Len(outbound) = 1
       /\ outbound[1].body.name = Stripped(request.arguments.reaction)
       /\ outbound[1].body.channel = request.arguments.channel_id
       /\ outbound[1].body.timestamp = request.arguments.timestamp

\* "thumbs-up!!" goes out as "thumbsup"
C17_Witness ==
  /\ IsCompleteCall(request, "add_reaction")
  /\ request.arguments.reaction = <<"t", "h", "u", "m", "b", "s", "-", "u", "p", "!", "!">>
  /\ Len(outbound) = 1
  /\ outbound[1].body.name = <<"t", "h", "u", "m", "b", "s", "u", "p">>

\* C18: after a check that admits its call in window c, the map holds no
\* key, of any endpoint, whose window is before c.
C18_NoKeyOfAnEarlierWindow ==
  \A i \in DOMAIN gateLog :
    gateLog[i].returned = JsBoolean(TRUE)
      => \A k \in DOMAIN rateLimiter : k[2] >= gateLog[i].window

\* C19: a check for one endpoint leaves the count of every other endpoint
\* in the current window as it was.
C19_OtherCountsUntouched ==
  [][ \A i \in DOMAIN gateLog' :
        calls' = calls + 1
          => \A B \in Endpoints \ {gateLog'[i].endpoint} :
               MapGet(rateLimiter', <<B, gateLog'[i].window>>)
                 = MapGet(rateLimiter, <<B, gateLog'[i].window>>) ]_vars

\* the text with the bit.ly URL
BitLyText == <<Word("see"), BareUrl(Url("http", BitLy, -1, "/x")), Word("today")>>

\* sanitizeText took all its steps for the request: nothing was rejected
PassedSanitizing == Len(stages) = 4

\* C11: with SLACK_SUSPICIOUS_DOMAINS set to the empty string no host is
\* blocked: a text with http://bit.ly/x passes URL validation.
C11_EmptyListBlocksNothing ==
  ( /\ IsTextCall(request)
    /\ request.arguments.text = BitLyText
    /\ "SLACK_SUSPICIOUS_DOMAINS" \in DOMAIN env
    /\ env.SLACK_SUSPICIOUS_DOMAINS = <<>> )
    => /\ PassedSanitizing
       /\ reply # JsThrown("Suspicious domain detected: bit.ly")

\* what the texts with a mention are to become when the cache maps
\* "jane doe" to the user with the handle jane.d
ResolvedTexts ==
     <<Word("cc"), Word("@Jane"), Word("Doe")>>
       :> (Spell["cc"] \o <<" ", "@">> \o Spell["jane.d"])
  @@ <<Word("cc"), Word("@Jane"), Word("Doe"), Word("for"), Word("review")>>
       :> (Spell["cc"] \o <<" ", "@">> \o Spell["jane.d"] \o <<" ">> \o Spell["for"]
             \o <<" ">> \o Spell["review"])
  @@ <<Word("@Random"), Word("Person")>>
       :> (Spell["@Random"] \o <<" ">> \o Spell["Person"])

\* C13: with a cache that maps "jane doe" to the user with the handle
\* jane.d, "cc @Jane Doe" and "cc @Jane Doe for review" go out with
\* "@jane.d" in place of "@Jane Doe", and "@Random Person", which the cache
\* does not know, goes out unchanged.
C13_DisplayNameBecomesHandle ==
  ( /\ IsTextCall(request)
    /\ request.arguments.text \in DOMAIN ResolvedTexts
    /\ PassedSanitizing
    /\ ToLowerCase(Spell["Jane Doe"]) \in DOMAIN userCache
    /\ userCache[ToLowerCase(Spell["Jane Doe"])].name = "jane.d" )
    => /\ stages[4].output = ResolvedTexts[request.arguments.text]
       /\ outbound[Len(outbound)].body.text = ResolvedTexts[request.arguments.text]

\* C14: when resolveMentions has the cache rebuilt, the cache being empty or
\* expired, and the rebuild fails, the text leaves resolveMentions as it
\* came, no token rewritten, and the operation goes on to send it.
C14_FailedRebuildLeavesTheText ==
  [][ ( /\ calls' = calls + 1
        /\ Len(stages') = 4
        /\ \E i \in DOMAIN gateLog' : gateLog'[i].endpoint = "getUsers"
        /\ cacheExpiry' = cacheExpiry )
        => /\ stages'[4].output = stages'[4].input
           /\ outbound'[Len(outbound')].body.text = stages'[4].input ]_vars

\* C20: the steps of sanitizeText run in the order URL validation, markdown
\* conversion, stripping, mention resolution, and URL validation is given
\* the text of the caller as it came, before any markdown conversion.
C20_ValidationBeforeAnyConversion ==
  (IsTextCall(request) /\ stages # <<>>)
    => /\ \A i \in DOMAIN stages :
            stages[i].stage
              = <<"validateUrls", "formatText", "replace", "resolveMentions">>[i]
       /\ stages[1].input = Characters(request.arguments.text)

\* the map with one more key, of the same endpoint and the window before:
\* a key an admitting check would prune
WithOlderKey(map, g) == (<<g.endpoint, g.window - 1>> :> 7) @@ map

\* C26: a check that finds the count of its endpoint at the cap leaves the
\* map as it was: the call it rejects changes no count and removes no key,
\* and the same check on the map holding a key of an earlier window as well
\* leaves that map as it was too.
C26_RejectingCheckLeavesTheMap ==
  [][ \A i \in DOMAIN gateLog' :
        (calls' = calls + 1 /\ gateLog'[i].current >= RATE_LIMIT_MAX_REQUESTS)
          => /\ rateLimiter' = rateLimiter
             /\ CheckRateLimit(WithOlderKey(rateLimiter, gateLog'[i]), now,
                               gateLog'[i].endpoint).rateLimiter
                  = WithOlderKey(rateLimiter, gateLog'[i]) ]_vars

\* a check has found its endpoint at the cap
C26_Witness ==
  /\ Len(gateLog) = 1
  /\ gateLog[1].current = RATE_LIMIT_MAX_REQUESTS
  /\ gateLog[1].returned # JsBoolean(TRUE)
  /\ rateLimiter[<<gateLog[1].endpoint, gateLog[1].window>>] = RATE_LIMIT_MAX_REQUESTS

\* the step is a list_channels call that the check admitted, the channel
\* ids being configured
AdmittedListOfPredefined ==
  /\ calls' = calls + 1
  /\ IsCompleteCall(request', "list_channels")
  /\ env.SLACK_CHANNEL_IDS # <<>>
  /\ Len(gateLog') = 1
  /\ gateLog'[1].returned = JsBoolean(TRUE)

\* the step counted one call of getChannels and no call of the lookup
\* endpoint getChannelInfo, and every request it sent is an info lookup
CountedOnceForAllLookups ==
  /\ gateLog'[1].endpoint = "getChannels"
  /\ rateLimiter'[<<"getChannels", gateLog'[1].window>>] = gateLog'[1].current + 1
  /\ \A k \in DOMAIN rateLimiter' :
        k[1] = "getChannelInfo" => k \in DOMAIN rateLimiter /\ rateLimiter'[k] = rateLimiter[k]
  /\ \A i \in DOMAIN outbound' : outbound'[i].api = "conversations.info"

\* C27: with n channel ids configured, an admitted list_channels call sends
\* exactly n info lookups, and counts one call of getChannels and none of
\* the lookups.
C27_ExactlyOneLookupPerId ==
  [][ AdmittedListOfPredefined
        => /\ CountedOnceForAllLookups
           /\ Len(outbound') = Len(env.SLACK_CHANNEL_IDS) ]_vars

\* C27, amended: with n channel ids configured, an admitted list_channels
\* call sends one info lookup per id in the order of the ids, n in all
\* unless a fetch throws, which ends the call with the lookups sent so far;
\* it counts one call of getChannels and none of the lookups.
C27_OneLookupPerIdUntilOneThrows ==
  [][ AdmittedListOfPredefined
        => /\ CountedOnceForAllLookups
           /\ Len(outbound') \in 1..Len(env.SLACK_CHANNEL_IDS)
           /\ \A i \in DOMAIN outbound' :
                 outbound'[i].params.channel = Trim(env.SLACK_CHANNEL_IDS[i])
           /\ reply'.type # "thrown" => Len(outbound') = Len(env.SLACK_CHANNEL_IDS)
           /\ reply'.type = "thrown" => Len(outbound') <= Len(env.SLACK_CHANNEL_IDS) ]_vars

\* list_channels with two ids configured has sent its two lookups on one
\* count of getChannels
C27_Witness ==
  /\ IsCompleteCall(request, "list_channels")
  /\ Len(env.SLACK_CHANNEL_IDS) = 2
  /\ Len(outbound) = 2
  /\ outbound[2].api = "conversations.info"
  /\ Len(gateLog) = 1
  /\ rateLimiter[<<"getChannels", gateLog[1].window>>] = 1

\* the step is a call whose resolveMentions rewrote a token
RewroteAToken ==
  /\ calls' = calls + 1
  /\ Len(stages') = 4
  /\ stages'[4].output # stages'[4].input

\* C23: whenever resolveMentions rewrites a token, the cache it looked the
\* name up in is not empty and its expiry is still ahead: it was valid when
\* the call came, or the call has rebuilt it.
C23_NoRewriteFromAnExpiredCache ==
  [][ RewroteAToken => (DOMAIN userCache' # {} /\ now' < cacheExpiry') ]_vars

\* the step is a call that rebuilt the cache: users.list answered ok
RebuiltTheCache ==
  /\ calls' = calls + 1
  /\ cacheExpiry' # cacheExpiry
  /\ \E i \in DOMAIN outbound' : outbound'[i].api = "users.list"

\* the users of the workspace, page after page
AllSlackUsers == SlackUsers \o SlackUsersNextPage

\* C24: a rebuild that succeeds asks users.list for the page after each
\* cursor it is given, and leaves every user who is not deleted in the
\* cache under the lowercased real name, display name and handle, those of
\* the second page included, and no deleted user under any key.
C24_EveryPageIndexed ==
  [][ RebuiltTheCache
        => /\ \E i \in DOMAIN outbound' :
                 /\ outbound'[i].api = "users.list"
                 /\ "cursor" \in DOMAIN outbound'[i].params
                 /\ outbound'[i].params.cursor = UsersNextCursor
           /\ \A n \in DOMAIN AllSlackUsers :
                 IF AllSlackUsers[n].deleted
                 THEN \A k \in DOMAIN userCache' : userCache'[k] # AllSlackUsers[n]
                 ELSE \A k \in CacheKeys(AllSlackUsers[n]) :
                        k \in DOMAIN userCache' /\ userCache'[k] = AllSlackUsers[n] ]_vars

\* the step is a call of one of the three tools that carry a text
TextCallStep == calls' = calls + 1 /\ IsTextCall(request')

\* the number of users.list requests the call of the step sent
UsersLookups == Cardinality({i \in DOMAIN outbound' : outbound'[i].api = "users.list"})

\* the text of the call has an "@" with a letter after it
CarriesMention == MatchAll(Characters(request'.arguments.text), MentionAt) # <<>>

\* the cache as the call finds it: built and not expired, built and expired
CacheValid == DOMAIN userCache # {} /\ now < cacheExpiry
CacheExpired == DOMAIN userCache # {} /\ now >= cacheExpiry

ResolvesAMention ==
  /\ Len(stages') = 4
  /\ MatchAll(stages'[4].input, MentionAt) # <<>>

RejectedByValidation ==
  /\ calls' = calls + 1
  /\ IsCompleteCall(request', "post_message")
  /\ Len(stages') = 1
  /\ stages'[1].output.type = "thrown"

\* C25: a post_message call that URL validation rejects has sent nothing
\* and has added one to the count of postMessage, and once
\* RATE_LIMIT_MAX_REQUESTS calls of postMessage were made in the window,
\* rejected ones included, the next one in the window fails with the
\* rate-limit error, whatever its text, and sends nothing.
C25_RejectedCallsUseUpTheWindow ==
  [][ /\ RejectedByValidation
        => /\ outbound' = <<>>
           /\ rateLimiter'[<<"postMessage", WindowOf(now)>>]
                = MapGet(rateLimiter, <<"postMessage", WindowOf(now)>>) + 1
      /\ ( /\ calls' = calls + 1
           /\ IsCompleteCall(request', "post_message")
           /\ MadeIn("postMessage", now) >= RATE_LIMIT_MAX_REQUESTS )
        => /\ reply' = JsThrown("Rate limit exceeded for postMessage")
           /\ outbound' = <<>> ]_vars

\* what the claim has formatText make of four texts
ConvertedTexts ==
     <<"*", "*", "x", "*", "*">> :> <<"*", "x", "*">>
  @@ <<"_", "_", "x", "_", "_">> :> <<"*", "x", "*">>
  @@ <<"*", "x", "*">> :> <<"_", "x", "_">>
  @@ <<"#", " ", "x">> :> <<"*", "x", "*">>

\* C29: formatText turns **x** and __x__ into *x*, *x* into _x_ and the
\* heading "# x" into *x*: what the rule for bold or for headings has
\* written is not taken up again by the rule for italic.
C29_BoldStaysBold ==
  \A i \in DOMAIN stages :
    (stages[i].stage = "formatText" /\ stages[i].input \in DOMAIN ConvertedTexts)
      => stages[i].output = ConvertedTexts[stages[i].input]

\* C30: formatText leaves what formatText has returned as it is: a second
\* and a third conversion in a row give the text the first one gave.
C30_ConvertedTextIsStable ==
  \A i \in DOMAIN stages :
    (stages[i].stage = "formatText" /\ i > 1 /\ stages[i - 1].stage = "formatText"
       /\ stages[i].input = stages[i - 1].output)
      => stages[i].output = stages[i].input

\* C21: however the calls overlap, the checks admit no more than
\* RATE_LIMIT_MAX_REQUESTS calls of an endpoint in one window and no count
\* loses a call: the count of an endpoint in the current window is the
\* number of calls of the endpoint the checks admitted in it.
C21_NoIncrementLost ==
  \A ep \in DOMAIN made :
    made[ep].window = WindowOf(now)
      => /\ made[ep].count <= RATE_LIMIT_MAX_REQUESTS
         /\ MapGet(rateLimiter, <<ep, WindowOf(now)>>) = made[ep].count

\* C22: however the calls overlap, at most one call at a time is between
\* finding the cache empty or expired and having rebuilt it: one
\* users.list request is in flight for one expiry, and no call resolves
\* its mentions while the rebuild of another call is under way.
C22_OneRebuildAtATime ==
  Cardinality({c \in DOMAIN flights : flights[c].pc = "users"}) <= 1

====
